---- MODULE Spec2Model ----
(***************************************************************************)
(* A model of the YASDL semantic compiler (venus.db.yasdl.compiler) and of *)
(* the AST attributes it derives (venus.db.yasdl.ast).                     *)
(*                                                                         *)
(* The input of a behaviour is a parsed schema set: a tree of YASDLItem    *)
(* objects (ast), the python object addresses of the definitions (addr),   *)
(* the strict flag of compile() and the diagnostics of the validation      *)
(* steps whose subject (identifier syntax, property value types, vendor    *)
(* types) is not part of the tree (fault).  Compiler.compile is a program  *)
(* counter over its steps; every step is one action.                       *)
(***************************************************************************)
EXTENDS Integers, Sequences, FiniteSets, TLC

VARIABLES
    ast,                 \* item id -> YASDLItem (cls, name, owner, items, modifiers, args, uses)
    schemas,             \* parsed.schemas, in loading order
    main_srcs,           \* parsed.main_srcs
    addr,                \* id(obj) of every item
    strict,              \* the strict argument of compile()
    fault,               \* diagnostic of one validation step outside the tree
    pc,                  \* index in StepSeq of the next step of compile()
    result,              \* "running", "True", "False" or "raised"
    has_error, has_warning, has_notice,
    messages,            \* set of <<kind, code, origin>>
    direct_implementor, final_implementor,
    specifications, implementations,
    ancestors, descendants,
    members, mbn, unused_deletions,
    ref,                 \* property id -> bound objects of its dotted names
    realized, toplevel,
    all_guids,           \* parsed.all_guids
    \* YASDLParseResult.parse
    p_fs,                \* the .yasdl files: <<directory, name>> -> package name and use names
    p_fpaths,            \* the fpaths argument, as schema names
    p_search_path,       \* the search_path argument
    p_pc,                \* where parse() is, or how it ended
    p_schemas,           \* self.schemas: source -> parsed schema
    p_main_srcs,         \* self.main_srcs
    p_errorcount,        \* self.errorcount
    p_parse_needed,      \* the local parse_needed: a list of use stacks
    p_new_schemas,       \* the local new_schemas: sources loaded in this round
    p_use_src,           \* use.src of the use statements, by <<source, position>>
    p_use_schema,        \* use.schema of the use statements
    p_loaded,            \* every call of parse_file / parse_str, in order
    \* Connection.makename
    n_limit,             \* cls.max_identifier_length
    n_path,              \* the path: the names of the definitions
    n_pc,                \* which names have been made
    n_name,              \* makename(*path)
    n_pkname,            \* makepkname(table), for a table named as the path's first item
    \* SQLProcessor
    q_subprocessors,     \* processor -> its subprocessors, in the order they were added
    q_buffer,            \* processor -> its buffer
    q_last,              \* the calls the last call on the parent made, itself included
    q_raised,            \* the last call on the parent raised
    q_calls,             \* calls made on the parent
    \* YASDLInstance.create / drop / upgrade
    d_op,                \* "create", "drop" or "upgrade"
    d_old,               \* the instance to drop, or the old instance of an upgrade
    d_new,               \* the instance to create, or the new instance of an upgrade
    d_options,           \* the options argument
    d_exists,            \* the kinds of objects which the database says exist
    d_failing,           \* the kinds of statements whose execution fails
    d_reversed,          \* the order in which sets of GUID values are iterated
    d_pc,                \* the step of the plan to run next
    d_context,           \* the YASDLUpgradeContext
    d_run,               \* the statements and calls made, the buffer, what was raised
    \* Connection: transactions and cursors
    t_conns,             \* connection -> its transactionlevel and cursors
    t_driver,            \* the database: committed rows, open savepoints of every connection
    t_log,               \* the driver hooks called and the cursors opened and closed
    t_failing,           \* the driver hooks that raise
    t_last,              \* the last call on a connection, with the state it found
    t_calls,             \* calls made
    \* ConnectionPoolContextManager: scoped acquisitions of one thread
    s_pool,              \* the pool: held, borrowed, created, closed
    s_scopes,            \* the context managers entered and not left, innermost last
    s_exc,               \* the exception that is propagating, if any
    s_left,              \* the last __exit__: its manager, what it was given and what it did
    s_steps,             \* steps made
    s_rows,              \* row written -> the scopes it was written under and its expected fate
    s_direct,            \* the body has ended a transaction level itself
    \* ConnectionPool: borrower threads and the collector thread
    cp_pool,             \* the pool: held, borrowed, created, closed
    cp_lock,             \* the thread that holds pool.lock, if any
    cp_pc,               \* thread -> the pool method it is in, with its argument
    cp_has,              \* borrower thread -> the connections it was lent and has not given back
    cp_now,              \* time.time()
    cp_last,             \* the last pool method that returned, with what it found
    \* Observable
    o_observers,         \* self._observers: observer -> event -> cbname
    o_wildcard_observers,\* self._wildcard_observers: observer -> cbname
    o_events,            \* self._events: event -> set of observers
    o_added,             \* the (observer, event) pairs added and not removed, with the handler last given
    o_last,              \* the last call: its arguments, the handlers it invoked, what it raised
    o_steps              \* calls made

parser == <<p_fs, p_fpaths, p_search_path, p_pc, p_schemas, p_main_srcs, p_errorcount,
            p_parse_needed, p_new_schemas, p_use_src, p_use_schema, p_loaded>>

namer == <<n_limit, n_path, n_pc, n_name, n_pkname>>

\* The state of the components that compile() does not touch.
processor == <<q_subprocessors, q_buffer, q_last, q_raised, q_calls>>

\* The state of the components that compile() does not touch.
planner == <<d_op, d_old, d_new, d_options, d_exists, d_failing, d_reversed, d_pc, d_context, d_run>>

\* The state of a database connection.
session == <<t_conns, t_driver, t_log, t_failing, t_last, t_calls>>

\* The state of the scoped acquisitions.
scoping == <<s_pool, s_scopes, s_exc, s_left, s_steps, s_rows, s_direct>>

\* The state of a pool shared by threads.
pooling == <<cp_pool, cp_lock, cp_pc, cp_has, cp_now, cp_last>>

\* The state of an observable.
observing == <<o_observers, o_wildcard_observers, o_events, o_added, o_last, o_steps>>

services == <<session, scoping, pooling, observing>>

others == <<parser, namer, processor, planner, services>>

vars == <<ast, schemas, main_srcs, addr, strict, fault, pc, result,
          has_error, has_warning, has_notice, messages,
          direct_implementor, final_implementor, specifications, implementations,
          ancestors, descendants, members, mbn, unused_deletions, ref,
          realized, toplevel, all_guids, others>>

inputs == <<ast, schemas, main_srcs, addr, strict, fault, others>>

\* No parse() is under way.
ParserIdle ==
    /\ p_fs = <<>> /\ p_fpaths = <<>> /\ p_search_path = <<>>
    /\ p_pc = "idle"
    /\ p_schemas = <<>> /\ p_main_srcs = <<>> /\ p_errorcount = 0
    /\ p_parse_needed = <<>> /\ p_new_schemas = <<>>
    /\ p_use_src = <<>> /\ p_use_schema = <<>> /\ p_loaded = <<>>

\* No name is being made.
NamerIdle ==
    /\ n_limit = 0 /\ n_path = <<>> /\ n_pc = "idle" /\ n_name = <<>> /\ n_pkname = <<>>

\* The other components at rest.
\* No processor exists.
ProcessorIdle ==
    /\ q_subprocessors = <<>> /\ q_buffer = <<>> /\ q_last = <<>>
    /\ q_raised = FALSE /\ q_calls = 0

\* No plan is run.
PlannerIdle ==
    /\ d_op = "idle" /\ d_old = <<>> /\ d_new = <<>> /\ d_options = <<>> /\ d_exists = {}
    /\ d_failing = {} /\ d_reversed = FALSE /\ d_pc = 0 /\ d_context = <<>> /\ d_run = <<>>

\* No connection exists.
SessionIdle ==
    /\ t_conns = <<>> /\ t_driver = <<>> /\ t_log = <<>> /\ t_failing = {}
    /\ t_last = <<>> /\ t_calls = 0

\* No scope was entered.
ScopingIdle ==
    /\ s_pool = <<>> /\ s_scopes = <<>> /\ s_exc = "" /\ s_left = <<>> /\ s_steps = 0
    /\ s_rows = <<>> /\ s_direct = FALSE

\* No thread uses a pool.
PoolingIdle ==
    /\ cp_pool = <<>> /\ cp_lock = "" /\ cp_pc = <<>> /\ cp_has = <<>> /\ cp_now = 0
    /\ cp_last = <<>>

\* No observable exists.
ObservingIdle ==
    /\ o_observers = <<>> /\ o_wildcard_observers = <<>> /\ o_events = <<>> /\ o_added = {}
    /\ o_last = <<>> /\ o_steps = 0

ServicesIdle == SessionIdle /\ ScopingIdle /\ PoolingIdle /\ ObservingIdle

OthersIdle == ParserIdle /\ NamerIdle /\ ProcessorIdle /\ PlannerIdle /\ ServicesIdle

(***************************************************************************)
(* Bounds of the input families.                                           *)
(***************************************************************************)
MaxImplements == 1      \* names listed after one "implements"
MaxAncestors == 2       \* names listed after one "ancestors"
MaxCheckItems == 3      \* arguments of one "check" property
MaxGuidValues == 2      \* distinct guid strings in one compilation

\* An item is named by its path: the names of its owners and its own.
NoItem == <<"none">>    \* python None
Unset == <<"unset">>    \* an attribute that has not been assigned yet

Range(s) == {s[i] : i \in 1..Len(s)}

RECURSIVE Concat(_)
Concat(ss) == IF ss = <<>> THEN <<>> ELSE Head(ss) \o Concat(Tail(ss))

RECURSIVE SetToSeqBy(_, _)
\* The elements of S in ascending order of key k (k is injective on S).
SetToSeqBy(S, k) ==
    IF S = {} THEN <<>>
    ELSE LET m == CHOOSE x \in S : \A y \in S : k[x] <= k[y]
         IN <<m>> \o SetToSeqBy(S \ {m}, k)

(***************************************************************************)
(* The AST.                                                                *)
(***************************************************************************)
Node(c, n, o, its, m, a, u) ==
    [cls |-> c, name |-> n, owner |-> o, items |-> its,
     modifiers |-> m, args |-> a, uses |-> u]

\* What the parser makes of one declaration d = [path, cls, modifiers, props,
\* dels, kids, uses]: the item itself, its properties (props: a sequence of
\* [name, args]), its deletions (dels: a sequence of names) and, as its last
\* items, the declarations of the names kids.
DeclItems(d) ==
    [k \in 1..Len(d.props) |-> d.path \o <<d.props[k].name>>] \o
    [k \in 1..Len(d.dels) |-> d.path \o <<"delete", d.dels[k]>>] \o
    [k \in 1..Len(d.kids) |-> d.path \o <<d.kids[k]>>]

DeclOwner(d) == IF Len(d.path) = 1 THEN NoItem ELSE SubSeq(d.path, 1, Len(d.path) - 1)

DeclNodes(d) ==
    (d.path :> Node(d.cls, d.path[Len(d.path)], DeclOwner(d), DeclItems(d),
                    d.modifiers, <<>>, d.uses)) @@
    [i \in {d.path \o <<d.props[k].name>> : k \in 1..Len(d.props)} |->
        Node("property", i[Len(i)], d.path, <<>>, {},
             d.props[CHOOSE k \in 1..Len(d.props) : d.props[k].name = i[Len(i)]].args,
             <<>>)] @@
    [i \in {d.path \o <<"delete", d.dels[k]>> : k \in 1..Len(d.dels)} |->
        Node("deletion", i[Len(i)], d.path, <<>>, {}, <<>>, <<>>)]

RECURSIVE Parse(_)
\* The tree of a sequence of declarations.
Parse(decls) ==
    IF decls = <<>> THEN <<>>
    ELSE DeclNodes(Head(decls)) @@ Parse(Tail(decls))

Decl(path, cls, modifiers, props, dels, kids) ==
    [path |-> path, cls |-> cls, modifiers |-> modifiers, props |-> props,
     dels |-> dels, kids |-> kids, uses |-> <<>>]

\* A property of a declaration, when it is written (present).
Prop(present, name, args) ==
    IF present THEN <<[name |-> name, args |-> args]>> ELSE <<>>

\* A dotted name among the arguments of a property (ast.dotted_name).
DName(t, i) == [kind |-> "name", target |-> t, imp |-> i, val |-> ""]
\* A string literal among the arguments of a property.
SLit(v) == [kind |-> "str", target |-> NoItem, imp |-> FALSE, val |-> v]

Items == DOMAIN ast

IsItem(i, classes) == i \in Items /\ ast[i].cls \in classes

DefClasses == {"field", "fieldset"}

RECURSIVE IterSeq(_)
\* YASDLItem.iterate(): depth first, the sub-items of an item before the item.
IterSeq(i) ==
    Concat([k \in 1..Len(ast[i].items) |-> IterSeq(ast[i].items[k])]) \o <<i>>

\* Compiler.iterate(min_classes)
Iterate(classes) ==
    SelectSeq(Concat([k \in 1..Len(schemas) |-> IterSeq(schemas[k])]),
              LAMBDA i : ast[i].cls \in classes)

AllClasses == {"schema", "fieldset", "field", "constraint", "property", "deletion"}

IterateAll == Iterate(AllClasses)

\* The fields and fieldsets iterate() yields: every one of the tree.
Defs == {i \in Items : ast[i].cls \in DefClasses}

RECURSIVE OwnerChain(_)
\* The owners of an item, innermost first.
OwnerChain(i) ==
    IF ast[i].owner = NoItem THEN <<>>
    ELSE <<ast[i].owner>> \o OwnerChain(ast[i].owner)

\* YASDLItem.owns: item is in the ownership tree below a (never a itself).
Owns(a, item) == a \in Range(OwnerChain(item))

\* YASDLItem.is_outermost
IsOutermost(i) == ast[i].owner # NoItem /\ ast[ast[i].owner].cls = "schema"

\* bind_static(name, recursive=False): the statically owned item of that
\* name (_snc keeps the last one), or None.
BindStaticLocal(i, n) ==
    LET idx == {k \in 1..Len(ast[i].items) : ast[ast[i].items[k]].name = n}
    IN IF idx = {} THEN NoItem
       ELSE ast[i].items[CHOOSE k \in idx : \A j \in idx : j <= k]

\* The objects bound to the dotted names of a property (name.ref).
RefsOf(p) == IF p = NoItem THEN {} ELSE Range(ref[p]) \ {NoItem}

(***************************************************************************)
(* compile(): the sequence of its steps.  After every step but the first   *)
(* compile tests has_error (and has_warning when strict) and returns.      *)
(***************************************************************************)
StepSeq ==
    << "p1s1", "p1s3", "p1s4", "p1s5", "p1s6", "p1s7", "p1s8", "p1s9",
       "p2s1", "p2s2", "p2s3", "p2s4", "p2s5",
       "p3s1", "p3s2", "p3s3", "p3s4", "p3s5", "p3s6", "p3s7",
       "p4s1", "p4s2", "p4s3", "p4s4", "p4s5",
       "p5s123", "p5s4", "p6s1",
       "p7s1", "p7s2", "p7s3", "p7s4", "p7s5", "p7s6", "p7s7", "p7s8", "p7s9",
       "p7s10", "p7s11", "p7s12", "p7s13", "p7s14", "p7s15", "p7s16", "p7s17",
       "p7s18", "p7s19",
       "p8s1" >>

\* A variant of NoCheckAfter in which compile() forgets the test after the
\* last step too; the order of the phases (C9) tells it from NoCheckAfter.
NoCheckAfterLast == {"p1s1", "p8s1"}

NoCheckAfter == {"p1s1"}

\* What a validation step whose subject is outside the tree can record: the
\* steps on use statements, on the spelling of names, on indexes, on the
\* properties size, precision, notnull, unique, immutable, ondelete, onupdate,
\* cluster and reqlevel, and on the types of the database driver.
OtherSteps ==
    [p1s1 |-> {"error"}, p1s3 |-> {"error"}, p1s5 |-> {"error"},
     p1s7 |-> {"error"}, p4s1 |-> {"error"}, p4s4 |-> {"error"},
     p7s6 |-> {"error"}, p7s7 |-> {"error"},
     p7s8 |-> {"error"}, p7s9 |-> {"error"}, p7s10 |-> {"error"}, p7s12 |-> {"error"},
     p7s13 |-> {"error"}, p7s15 |-> {"error"},
     p7s16 |-> {"error"}, p7s17 |-> {"notice"}, p7s18 |-> {"error"},
     p8s1 |-> {"error"},
     \* _bindpath_static and _bindpath warn about a name that is prefixed with
     \* the package name of its own schema (99011, 99012)
     p1s8 |-> {"warning"}, p3s1 |-> {"warning"}, p4s2 |-> {"warning"}]

\* The steps that change nothing but the messages.
CheckOnlySteps == DOMAIN OtherSteps \ {"p1s8", "p3s1", "p4s2"}

NoFault == [step |-> "none", kind |-> "none"]

Faults == {NoFault} \cup
          {[step |-> s, kind |-> k] : s \in DOMAIN OtherSteps, k \in {"error", "warning", "notice"}}

FaultOK(f) == f = NoFault \/ f.kind \in OtherSteps[f.step]

Step == IF result = "running" THEN StepSeq[pc] ELSE "stopped"

Msgs(kind, code, origins) == {<<kind, code, o>> : o \in origins}

\* append_error / append_warning / append_notice for the messages of one
\* step, then the test compile() makes after the step.
Advance(errs, warns, notes) ==
    LET e == has_error \/ errs # {}
        w == has_warning \/ warns # {}
    IN /\ has_error' = e
       /\ has_warning' = w
       /\ has_notice' = (has_notice \/ notes # {})
       /\ messages' = messages \cup errs \cup warns \cup notes
       /\ IF Step \notin NoCheckAfter /\ (e \/ (strict /\ w))
          THEN /\ result' = "False"
               /\ pc' = pc
          ELSE IF pc = Len(StepSeq)
               THEN /\ result' = "True"
                    /\ pc' = pc
               ELSE /\ result' = "running"
                    /\ pc' = pc + 1

\* A python exception leaves compile().
Raise ==
    /\ result' = "raised"
    /\ UNCHANGED <<pc, has_error, has_warning, has_notice, messages>>

derived == <<direct_implementor, final_implementor, specifications, implementations,
             ancestors, descendants, members, mbn, unused_deletions, ref,
             realized, toplevel, all_guids>>

\* The messages of the running step about a subject outside the tree.
FaultMsgs(kind) ==
    IF fault.step = Step /\ fault.kind = kind THEN {<<kind, Step, NoItem>>} ELSE {}

\* A validation step on a subject outside the tree.
OtherStep ==
    /\ Step \in CheckOnlySteps
    /\ Advance(FaultMsgs("error"), FaultMsgs("warning"), FaultMsgs("notice"))
    /\ UNCHANGED derived
    /\ UNCHANGED inputs

(***************************************************************************)
(* Phase 1                                                                 *)
(***************************************************************************)
\* The subclasses of YASDLDefinition.
DefinitionClasses == {"schema", "fieldset", "field", "index", "constraint"}

\* The names _phase1_step4 collects for a definition: those of the use
\* statements of a schema, then those of the items.
NamesOf(obj) ==
    [k \in 1..Len(ast[obj].uses) |-> ast[obj].uses[k].name] \o
    [k \in 1..Len(ast[obj].items) |-> ast[ast[obj].items[k]].name]

\* The positions in a list of names that repeat an earlier name.
Repeated(names) == {k \in 1..Len(names) : \E j \in 1..(k - 1) : names[j] = names[k]}

\* _phase1_step4: no name twice among the items of a definition.  A use
\* statement is no item of the tree: the message about it has no origin here.
Phase1Step4 ==
    /\ Step = "p1s4"
    /\ Advance(Msgs("error", "01041",
                    UNION {{IF k <= Len(ast[obj].uses) THEN NoItem
                            ELSE ast[obj].items[k - Len(ast[obj].uses)] :
                               k \in Repeated(NamesOf(obj))} :
                           obj \in {o \in Items : ast[o].cls \in DefinitionClasses}}),
               {}, {})
    /\ UNCHANGED derived
    /\ UNCHANGED inputs

\* _phase1_step6: abstract and final exclude each other.
Phase1Step6 ==
    /\ Step = "p1s6"
    /\ Advance(Msgs("error", "01061",
                    {i \in Items : {"abstract", "final"} \subseteq ast[i].modifiers}),
               {}, {})
    /\ UNCHANGED derived
    /\ UNCHANGED inputs

PropsNamed(n) == {p \in Items : ast[p].cls = "property" /\ ast[p].name = n}

\* The object a dotted name of "implements" or "ancestors" is bound to by
\* _bindpath_static: the definition the name denotes.
StaticRefs(p) == [k \in 1..Len(ast[p].args) |-> ast[p].args[k].target]

\* The errors of _phase1_step8 (implements) and _phase3_step1 (ancestors)
\* for one bound name o of property obj; the property itself owns nothing,
\* so obj.owns(o) is never true.
BindErrors(obj, o, notfound, self, contains) ==
    IF o = NoItem THEN Msgs("error", notfound, {obj})
    ELSE IF o = ast[obj].owner THEN Msgs("error", self, {obj})
    ELSE IF Owns(o, obj) THEN Msgs("error", contains, {obj, o})
    ELSE {}

\* _phase1_step8: bind the names listed after "implements".
Phase1Step8 ==
    /\ Step = "p1s8"
    /\ LET props == PropsNamed("implements")
           good == {p \in props : ast[ast[p].owner].cls \in DefClasses}
           errs == Msgs("error", "01081", props \ good) \cup
                   UNION {BindErrors(p, o, "01082", "01085", "01086") :
                          <<p, o>> \in {<<q, t>> \in good \X (Items \cup {NoItem}) :
                                            t \in Range(StaticRefs(q))}}
       IN /\ ref' = [p \in Items |-> IF p \in good THEN StaticRefs(p) ELSE ref[p]]
          /\ Advance(errs, FaultMsgs("warning"), {})
    /\ UNCHANGED <<direct_implementor, final_implementor, specifications, implementations,
                   ancestors, descendants, members, mbn, unused_deletions,
                   realized, toplevel, all_guids>>
    /\ UNCHANGED inputs


\* The names a definition lists after property propname, as bound objects.
PropRefs(obj, propname) ==
    LET p == BindStaticLocal(obj, propname)
    IN IF p # NoItem /\ ast[p].cls = "property" THEN RefsOf(p) ELSE {}

RECURSIVE PropClosureFrom(_, _)
\* _prop_closure: what is reachable through property propname.
PropClosureFrom(S, propname) ==
    LET T == S \cup UNION {PropRefs(o, propname) : o \in S}
    IN IF T = S THEN S ELSE PropClosureFrom(T, propname)

PropClosure(obj, propname) == PropClosureFrom(PropRefs(obj, propname), propname)

RECURSIVE PreOrder(_)
\* The order in which _check_circular visits an item and its sub-items.
PreOrder(i) ==
    <<i>> \o Concat([k \in 1..Len(ast[i].items) |-> PreOrder(ast[i].items[k])])

\* _check_circular for every field and fieldset, stopping at the first
\* circle: the messages of that circle.
CircularErrors(propname, code) ==
    LET defs == Iterate(DefClasses)
        visit == Concat([k \in 1..Len(defs) |-> PreOrder(defs[k])])
        bad == {k \in 1..Len(visit) : visit[k] \in PropClosure(visit[k], propname)}
    IN IF bad = {} THEN {}
       ELSE LET first == visit[CHOOSE k \in bad : \A j \in bad : k <= j]
            IN Msgs("error", code, {first} \cup PropClosure(first, propname))

\* _phase1_step9: no circular implements.
Phase1Step9 ==
    /\ Step = "p1s9"
    /\ Advance(CircularErrors("implements", "01091"), {}, {})
    /\ UNCHANGED derived
    /\ UNCHANGED inputs

(***************************************************************************)
(* Phase 2: the implementation trees                                       *)
(***************************************************************************)
\* _get_all_implementors: the "implements" properties that list what.
AllImplementors(what) ==
    {p \in {BindStaticLocal(o, "implements") : o \in Items} \ {NoItem} :
        what \in RefsOf(p)}

\* _phase2_step1 / _check_multiple_implementors
Phase2Step1 ==
    /\ Step = "p2s1"
    /\ LET multi == {d \in Defs : Cardinality(AllImplementors(d)) > 1}
       IN /\ direct_implementor' =
                [i \in Items |->
                    IF i \notin Defs \/ i \in multi THEN direct_implementor[i]
                    ELSE IF AllImplementors(i) = {} THEN NoItem
                    ELSE ast[CHOOSE p \in AllImplementors(i) : TRUE].owner]
          /\ Advance(Msgs("error", "02011",
                          multi \cup UNION {AllImplementors(d) : d \in multi}), {}, {})
    /\ UNCHANGED <<final_implementor, specifications, implementations,
                   ancestors, descendants, members, mbn, unused_deletions, ref,
                   realized, toplevel, all_guids>>
    /\ UNCHANGED inputs

\* _has_imp_ancestor: an "=name" is listed after "ancestors".
HasImpAncestor(obj) ==
    LET p == BindStaticLocal(obj, "ancestors")
    IN p # NoItem /\ \E k \in 1..Len(ast[p].args) : ast[p].args[k].imp

\* _phase2_step2
Phase2Step2 ==
    /\ Step = "p2s2"
    /\ Advance(Msgs("error", "02021",
                    {d \in Defs : direct_implementor[d] # NoItem /\ HasImpAncestor(d)}),
               {}, {})
    /\ UNCHANGED derived
    /\ UNCHANGED inputs

RECURSIVE FinalImplementationOf(_)
\* set_final_implementation_of: follow direct_implementor to its end.
FinalImplementationOf(obj) ==
    IF direct_implementor[obj] # NoItem
    THEN FinalImplementationOf(direct_implementor[obj])
    ELSE obj

\* _phase2_step3
Phase2Step3 ==
    /\ Step = "p2s3"
    /\ final_implementor' =
          [i \in Items |-> IF i \in Defs THEN FinalImplementationOf(i)
                           ELSE final_implementor[i]]
    /\ Advance({}, {}, {})
    /\ UNCHANGED <<direct_implementor, specifications, implementations,
                   ancestors, descendants, members, mbn, unused_deletions, ref,
                   realized, toplevel, all_guids>>
    /\ UNCHANGED inputs

\* _phase2_step4: the abstract and final modifiers
Phase2Step4 ==
    /\ Step = "p2s4"
    /\ LET noimp == {d \in Defs : /\ final_implementor[d] = d
                                  /\ {"abstract", "required"} \subseteq ast[d].modifiers}
           finimp == {d \in Defs : /\ final_implementor[d] # d
                                   /\ "final" \in ast[d].modifiers}
       IN Advance(Msgs("error", "02041", noimp) \cup
                  Msgs("error", "02042", finimp \cup {final_implementor[d] : d \in finimp}),
                  {}, {})
    /\ UNCHANGED derived
    /\ UNCHANGED inputs


\* The definitions that share final implementor fi (one entry of trees).
TreeOf(fi) == {d \in Defs : final_implementor[d] = fi}

\* The order in which python iterates over a set of objects: objects hash by
\* their address.
SetOrder(S) == SetToSeqBy(S, addr)

\* The test of _phase2_step5 and _phase3_step5 on one pair of a group.
ContainsPair(i1, i2) == addr[i1] > addr[i2] /\ Owns(i1, i2)

RECURSIVE ForSpecDirect(_, _, _, _)
\* A variant of ForSpec that takes the directly implemented definitions only;
\* the specifications of a final implementor (C4) tell it from ForSpec.
ForSpecDirect(item, order, k, S) ==
    IF k > Len(order) THEN S
    ELSE ForSpecDirect(item, order, k + 1,
                       IF direct_implementor[order[k]] = item
                       THEN S \cup {order[k]} ELSE S)

RECURSIVE ForSpec(_, _, _, _)
\* "for spec in items" of _phase2_step5 for one item, from position k on.
ForSpec(item, order, k, S) ==
    IF k > Len(order) THEN S
    ELSE LET spec == order[k]
         IN ForSpec(item, order, k + 1,
                    IF \/ direct_implementor[spec] = item
                       \/ direct_implementor[spec] \in S
                    THEN S \cup {spec} ELSE S)

RECURSIVE ForImp(_, _, _, _, _)
\* "for imp in items" of _phase2_step5 for one item, from position k on;
\* sm holds the specifications collected so far.
ForImp(item, order, k, I, sm) ==
    IF k > Len(order) THEN I
    ELSE LET imp == order[k]
         IN ForImp(item, order, k + 1,
                   IF \/ direct_implementor[item] = imp
                      \/ direct_implementor[item] \in sm[imp]
                   THEN I \cup {imp} ELSE I, sm)

RECURSIVE WhileAdded(_, _, _, _)
\* "while True: ... if not added: break" for one item.
WhileAdded(item, order, sm, im) ==
    LET S == ForSpec(item, order, 1, sm[item])
        sm2 == [sm EXCEPT ![item] = S]
        I == ForImp(item, order, 1, im[item], sm2)
        im2 == [im EXCEPT ![item] = I]
    IN IF S = sm[item] /\ I = im[item] THEN <<sm, im>>
       ELSE WhileAdded(item, order, sm2, im2)

RECURSIVE ForItem(_, _, _, _)
\* "for item in items" over the items of every tree.
ForItem(seq, k, sm, im) ==
    IF k > Len(seq) THEN <<sm, im>>
    ELSE LET item == seq[k]
             r == WhileAdded(item, SetOrder(TreeOf(final_implementor[item])), sm, im)
         IN ForItem(seq, k + 1, r[1], r[2])

\* _phase2_step5
Phase2Step5 ==
    /\ Step = "p2s5"
    /\ LET pairs == {<<i1, i2>> \in Defs \X Defs :
                        /\ final_implementor[i1] = final_implementor[i2]
                        /\ ContainsPair(i1, i2)}
           fis == {final_implementor[d] : d \in Defs}
           seq == Concat([k \in 1..Cardinality(fis) |->
                             SetOrder(TreeOf(SetOrder(fis)[k]))])
           r == ForItem(seq, 1, specifications, implementations)
       IN /\ specifications' = r[1]
          /\ implementations' = r[2]
          /\ Advance(Msgs("error", "02051",
                          {p[1] : p \in pairs} \cup {p[2] : p \in pairs}), {}, {})
    /\ UNCHANGED <<direct_implementor, final_implementor,
                   ancestors, descendants, members, mbn, unused_deletions, ref,
                   realized, toplevel, all_guids>>
    /\ UNCHANGED inputs


(***************************************************************************)
(* Phase 3: the inheritance graph                                          *)
(***************************************************************************)
\* _phase3_step1: bind the names listed after "ancestors".
Phase3Step1 ==
    /\ Step = "p3s1"
    /\ LET props == PropsNamed("ancestors")
           good == {p \in props : ast[ast[p].owner].cls \in DefClasses}
           errs == Msgs("error", "03011", props \ good) \cup
                   UNION {BindErrors(p, o, "03013", "03016", "03017") :
                          <<p, o>> \in {<<q, t>> \in good \X (Items \cup {NoItem}) :
                                            t \in Range(StaticRefs(q))}}
       IN /\ ref' = [p \in Items |-> IF p \in good THEN StaticRefs(p) ELSE ref[p]]
          /\ Advance(errs, FaultMsgs("warning"), {})
    /\ UNCHANGED <<direct_implementor, final_implementor, specifications, implementations,
                   ancestors, descendants, members, mbn, unused_deletions,
                   realized, toplevel, all_guids>>
    /\ UNCHANGED inputs

\* _phase3_step2: no circular ancestors (among the names as written).
Phase3Step2 ==
    /\ Step = "p3s2"
    /\ Advance(CircularErrors("ancestors", "03021"), {}, {})
    /\ UNCHANGED derived
    /\ UNCHANGED inputs

\* _phase3_step3
Phase3Step3 ==
    /\ Step = "p3s3"
    /\ Advance(Msgs("error", "03031",
                    {d \in Defs : /\ BindStaticLocal(d, "implements") # NoItem
                                  /\ ast[BindStaticLocal(d, "implements")].args # <<>>
                                  /\ HasImpAncestor(d)}), {}, {})
    /\ UNCHANGED derived
    /\ UNCHANGED inputs

\* The ancestors list _phase3_step4 stores for obj: "=X" stands for the final
\* implementor of X.
AncestorList(obj) ==
    LET p == BindStaticLocal(obj, "ancestors")
    IN IF p = NoItem THEN <<>>
       ELSE [k \in 1..Len(ast[p].args) |->
                IF ast[p].args[k].imp THEN final_implementor[ref[p][k]]
                ELSE ref[p][k]]

\* _phase3_step4: ancestors and descendants
Phase3Step4 ==
    /\ Step = "p3s4"
    /\ LET anc == [i \in Items |-> IF i \in Defs THEN ancestors[i] \o AncestorList(i)
                                   ELSE ancestors[i]]
       IN /\ ancestors' = anc
          /\ descendants' = [i \in Items |->
                                IF i \in Defs THEN {d \in Defs : i \in Range(anc[d])}
                                ELSE descendants[i]]
    /\ Advance({}, {}, {})
    /\ UNCHANGED <<direct_implementor, final_implementor, specifications, implementations,
                   members, mbn, unused_deletions, ref, realized, toplevel, all_guids>>
    /\ UNCHANGED inputs

RECURSIVE GraphFrom(_)
\* One inheritance graph of _phase3_step5: what is connected to S through
\* ancestors and descendants.
GraphFrom(S) ==
    LET T == S \cup UNION {Range(ancestors[d]) \cup descendants[d] : d \in S}
    IN IF T = S THEN S ELSE GraphFrom(T)

\* _phase3_step5
Phase3Step5 ==
    /\ Step = "p3s5"
    /\ LET pairs == {<<i1, i2>> \in Defs \X Defs :
                        /\ i2 \in GraphFrom({i1})
                        /\ ContainsPair(i1, i2)}
       IN Advance(Msgs("error", "03051",
                       {p[1] : p \in pairs} \cup {p[2] : p \in pairs}), {}, {})
    /\ UNCHANGED derived
    /\ UNCHANGED inputs

RECURSIVE AncestorsFrom(_)
\* Every object _cache_members reaches from the objects of S by recursion.
AncestorsFrom(S) ==
    LET T == S \cup UNION {Range(ancestors[d]) : d \in S}
    IN IF T = S THEN S ELSE AncestorsFrom(T)

\* The recursion of _cache_members from obj never ends: it meets an object
\* that is its own (stored) ancestor before any _members_cached is set.
CacheMembersDiverges(obj) ==
    \E d \in AncestorsFrom({obj}) : d \in AncestorsFrom(Range(ancestors[d]))

\* members.index(old)
IndexOf(seq, x) == CHOOSE k \in 1..Len(seq) : seq[k] = x /\ \A j \in 1..(k - 1) : seq[j] # x

\* A variant of PutMember that appends always; the merge of the members (C7)
\* tells it from PutMember.
PutMemberAppend(st, item) ==
    [st EXCEPT !.mbn = (ast[item].name :> item) @@ st.mbn,
               !.members = Append(st.members, item)]

\* The replace-or-append of _cache_members for one member.
PutMember(st, item) ==
    LET n == ast[item].name
    IN IF n \in DOMAIN st.mbn
       THEN [st EXCEPT !.mbn = (n :> item) @@ st.mbn,
                       !.members = [st.members EXCEPT ![IndexOf(st.members, st.mbn[n])] = item]]
       ELSE [st EXCEPT !.mbn = (n :> item) @@ st.mbn,
                       !.members = Append(st.members, item)]

\* One inherited member.
InheritMember(st, item, deletions) ==
    LET n == ast[item].name
    IN IF n \in {"implements", "ancestors"} THEN st
       ELSE IF n \in deletions THEN [st EXCEPT !.used = st.used \cup {n}]
       ELSE PutMember(st, item)

RECURSIVE InheritAll(_, _, _, _)
InheritAll(st, seq, k, deletions) ==
    IF k > Len(seq) THEN st
    ELSE InheritAll(InheritMember(st, seq[k], deletions), seq, k + 1, deletions)

\* getattr(item, 'final_implementor', item)
FinalOrSelf(item) ==
    IF final_implementor[item] # Unset THEN final_implementor[item] ELSE item

\* One statically defined item.
LocalMember(st, item) ==
    IF ast[FinalOrSelf(item)].cls = "deletion" THEN st
    ELSE PutMember(st, FinalOrSelf(item))

RECURSIVE LocalAll(_, _, _)
LocalAll(st, seq, k) ==
    IF k > Len(seq) THEN st
    ELSE LocalAll(LocalMember(st, seq[k]), seq, k + 1)

Deletions(obj) ==
    {ast[i].name : i \in {j \in Range(ast[obj].items) : ast[j].cls = "deletion"}}

EmptyMembers == [members |-> <<>>, mbn |-> <<>>, used |-> {}]

RECURSIVE CacheMembers(_)
RECURSIVE InheritAncestors(_, _, _, _)
\* "for ancestor in self.ancestors" of _cache_members.
InheritAncestors(st, anc, k, deletions) ==
    IF k > Len(anc) THEN st
    ELSE InheritAncestors(
             InheritAll(st, CacheMembers(anc[k]).members, 1, deletions),
             anc, k + 1, deletions)

\* YASDLItem._cache_members of an object whose recursion ends.
CacheMembers(obj) ==
    LocalAll(InheritAncestors(EmptyMembers, ancestors[obj], 1, Deletions(obj)),
             ast[obj].items, 1)

\* _phase3_step6
Phase3Step6 ==
    /\ Step = "p3s6"
    /\ IF \E i \in Items : CacheMembersDiverges(i)
       THEN /\ Raise
            /\ UNCHANGED <<members, mbn, unused_deletions>>
       ELSE LET cached == [i \in Items |-> CacheMembers(i)]
            IN /\ members' = [i \in Items |-> cached[i].members]
               /\ mbn' = [i \in Items |-> cached[i].mbn]
               /\ unused_deletions' = [i \in Items |-> Deletions(i) \ cached[i].used]
               /\ Advance({}, {}, {})
    /\ UNCHANGED <<direct_implementor, final_implementor, specifications, implementations,
                   ancestors, descendants, ref, realized, toplevel, all_guids>>
    /\ UNCHANGED inputs

\* _phase3_step7: warn about deletions that deleted nothing.
Phase3Step7 ==
    /\ Step = "p3s7"
    /\ Advance({}, Msgs("warning", "03071",
                        {i \in Items : /\ ast[i].owner # NoItem
                                       /\ ast[i].name \in unused_deletions[ast[i].owner]}),
               {})
    /\ UNCHANGED derived
    /\ UNCHANGED inputs


(***************************************************************************)
(* itercontained(), contains()                                             *)
(***************************************************************************)
RECURSIVE ContainedFrom(_)
\* The members of the members of ... the objects of S, and S.
ContainedFrom(S) ==
    LET T == S \cup UNION {Range(members[m]) : m \in S}
    IN IF T = S THEN S ELSE ContainedFrom(T)

\* The last elements of the paths obj.itercontained() yields.
Contained(obj) == ContainedFrom(Range(members[obj]))

\* Running obj.itercontained() to its end never ends: some contained object
\* contains itself.
IterContainedDiverges(obj) ==
    \E m \in Contained(obj) : m \in Contained(m)

RECURSIVE SearchContained(_, _, _, _)
\* Walk itercontained() over the member list seq (from position k, below the
\* objects of path) until it yields an object of T: "found", "none" when the
\* walk ends without, "diverges" when the walk re-enters an object of path
\* before.
SearchContained(seq, k, path, T) ==
    IF k > Len(seq) THEN "none"
    ELSE LET m == seq[k]
             below == IF m \in T THEN "found"
                      ELSE IF m \in path THEN "diverges"
                      ELSE SearchContained(members[m], 1, path \cup {m}, T)
         IN IF below # "none" THEN below
            ELSE SearchContained(seq, k + 1, path, T)

\* YASDLItem.contains(item): "found", "none" or "diverges".
Contains(obj, item) == SearchContained(members[obj], 1, {obj}, {item})

(***************************************************************************)
(* Phase 4: dynamic binding and the checks on references, check            *)
(***************************************************************************)
\* The object _bindpath finds for a dotted name: members hold final
\* implementors and bindpath returns the final implementor of what it finds
\* statically.
DynamicRefs(p) ==
    [k \in 1..Len(ast[p].args) |->
        IF ast[p].args[k].kind = "name" /\ ast[p].args[k].target # NoItem
        THEN FinalOrSelf(ast[p].args[k].target)
        ELSE NoItem]

\* _phase4_step2
Phase4Step2 ==
    /\ Step = "p4s2"
    /\ LET props == {p \in Items : /\ ast[p].cls = "property"
                                   /\ ast[p].name \notin {"implements", "ancestors"}}
           unbound == {p \in props : \E k \in 1..Len(ast[p].args) :
                                        /\ ast[p].args[k].kind = "name"
                                        /\ DynamicRefs(p)[k] = NoItem}
       IN /\ ref' = [p \in Items |-> IF p \in props THEN DynamicRefs(p) ELSE ref[p]]
          /\ Advance(Msgs("error", "04021", unbound), FaultMsgs("warning"), {})
    /\ UNCHANGED <<direct_implementor, final_implementor, specifications, implementations,
                   ancestors, descendants, members, mbn, unused_deletions,
                   realized, toplevel, all_guids>>
    /\ UNCHANGED inputs

\* _phase4_step3: a referenced fieldset must be outermost.
Phase4Step3 ==
    /\ Step = "p4s3"
    /\ LET bad == {p \in PropsNamed("references") :
                      /\ Len(ast[p].args) = 1
                      /\ ~IsOutermost(final_implementor[ref[p][1]])}
       IN Advance(Msgs("error", "04031",
                       bad \cup {final_implementor[ref[p][1]] : p \in bad}), {}, {})
    /\ UNCHANGED derived
    /\ UNCHANGED inputs

\* YASDLConstraint.get_check: the member named "check", or None.
GetCheck(obj) == IF "check" \in DOMAIN mbn[obj] THEN mbn[obj]["check"] ELSE NoItem

\* The positions of the dotted names among the arguments of a property.
DottedAt(p) == {k \in 1..Len(ast[p].args) : ast[p].args[k].kind = "name"}

\* The first dotted name among the arguments of a property.
FirstDotted(p) == CHOOSE k \in DottedAt(p) : \A j \in DottedAt(p) : k <= j

\* The first loop of _phase4_step5 over check.items: it returns from the step
\* at the first dotted name it meets, with 04053 when that is no field.
CheckLoop1(check) ==
    IF DottedAt(check) = {} THEN "next"
    ELSE IF ast[ref[check][FirstDotted(check)]].cls # "field" THEN "04053"
    ELSE "return"

\* The second loop: it too returns at the first dotted name, with 04054 when
\* the owning fieldset does not contain the field.
CheckLoop2(obj, check) ==
    IF DottedAt(check) = {} THEN "return"
    ELSE IF Contains(ast[obj].owner, ref[check][FirstDotted(check)]) = "found" THEN "return"
    ELSE "04054"

\* _phase4_step5 for one constraint: the code of its error, or "return".
CheckConstraint(obj) ==
    LET check == GetCheck(obj)
    IN IF check = NoItem THEN "04051"
       ELSE IF ast[check].args = <<>> THEN "04052"
       ELSE IF CheckLoop1(check) # "next" THEN CheckLoop1(check)
       ELSE CheckLoop2(obj, check)

\* _phase4_step5
Phase4Step5 ==
    /\ Step = "p4s5"
    /\ LET cons == {c \in Items : ast[c].cls = "constraint"}
       IN Advance(UNION {Msgs("error", CheckConstraint(c),
                              {IF GetCheck(c) = NoItem \/ ast[GetCheck(c)].args = <<>>
                               THEN c ELSE GetCheck(c)}) :
                         c \in {x \in cons : CheckConstraint(x) # "return"}}, {}, {})
    /\ UNCHANGED derived
    /\ UNCHANGED inputs


(***************************************************************************)
(* Phase 5: what is realized                                               *)
(***************************************************************************)
RECURSIVE RequiredSchemas(_)
\* The schemas reached from S through "require" statements.
RequiredSchemas(S) ==
    LET T == S \cup {u.schema : u \in {v \in UNION {Range(ast[s].uses) : s \in S} : v.required}}
    IN IF T = S THEN S ELSE RequiredSchemas(T)

RealizedSchemas == RequiredSchemas(main_srcs)

\* The required outermost fieldsets of the realized schemas.
RequiredOutermost ==
    {i \in Items : /\ ast[i].cls = "fieldset"
                   /\ ast[i].owner \in RealizedSchemas
                   /\ "required" \in ast[i].modifiers}

\* The fields a set of fieldsets contains.
ContainedOfClass(S, c) == {m \in UNION {Contained(f) : f \in S} : ast[m].cls = c}

\* member.bind_static('references', None, False) for the fields contained in
\* the fieldsets of S: the "references" they declare themselves.
DeclaredReferences(S) ==
    {BindStaticLocal(m, "references") : m \in ContainedOfClass(S, "field")} \ {NoItem}

RECURSIVE RealizeLoop(_)
\* The "while True" of phase 5 from the state st = [rf, tl, fields] on; the
\* loop ends when a pass adds no fieldset.
RealizeLoop(st) ==
    LET rf1 == st.rf \cup ContainedOfClass(st.rf, "fieldset")
        f1 == st.fields \cup ContainedOfClass(st.rf, "field")
        referenced == {final_implementor[ref[p][1]] : p \in DeclaredReferences(rf1)}
        rf2 == rf1 \cup referenced
        next == [rf |-> rf2, tl |-> st.tl \cup referenced, fields |-> f1]
    IN IF Cardinality(rf2) + Cardinality(rf2) = Cardinality(st.rf) + Cardinality(st.rf)
       THEN next
       ELSE RealizeLoop(next)

RECURSIVE RealizeReach(_)
\* Every fieldset the loop of phase 5 can come to iterate over.
RealizeReach(S) ==
    LET rf1 == S \cup ContainedOfClass(S, "fieldset")
        T == rf1 \cup {final_implementor[ref[p][1]] :
                          p \in {q \in DeclaredReferences(rf1) : ast[q].args # <<>>}}
    IN IF T = S THEN S ELSE RealizeReach(T)

\* A variant of Propagate that leaves the specifications alone; the closure
\* of what is realized (C1) tells it from Propagate.
PropagateNone(R) == R

RECURSIVE Propagate(_)
\* The last loop of phase 5: the specifications of realized definitions.
Propagate(R) ==
    LET T == R \cup UNION {specifications[d] : d \in R}
    IN IF T = R THEN R ELSE Propagate(T)

\* _phase5_step1_and_step2_and_step3
Phase5Step123 ==
    /\ Step = "p5s123"
    /\ LET good == {i \in RequiredOutermost : IsOutermost(final_implementor[i])}
           bad == RequiredOutermost \ good
           seeds == {final_implementor[i] : i \in good}
           reach == RealizeReach(seeds)
       IN IF \/ \E f \in reach : IterContainedDiverges(f)                    \* RecursionError
             \/ \E p \in DeclaredReferences(reach) : ast[p].args = <<>>      \* IndexError
          THEN /\ Raise
               /\ UNCHANGED <<realized, toplevel>>
          ELSE LET st == RealizeLoop([rf |-> seeds, tl |-> seeds, fields |-> {}])
                   R == Propagate(st.rf \cup st.fields)
               IN /\ realized' = [i \in Items |->
                                     IF ast[i].cls = "schema" THEN i \in RealizedSchemas
                                     ELSE IF ast[i].cls \in DefClasses THEN i \in R
                                     ELSE realized[i]]
                  /\ toplevel' = [i \in Items |->
                                     IF ast[i].cls = "fieldset" THEN i \in st.tl
                                     ELSE toplevel[i]]
                  /\ Advance(Msgs("error", "05011",
                                  bad \cup {final_implementor[i] : i \in bad}), {}, {})
    /\ UNCHANGED <<direct_implementor, final_implementor, specifications, implementations,
                   ancestors, descendants, members, mbn, unused_deletions, ref, all_guids>>
    /\ UNCHANGED inputs

\* _phase5_step4
Phase5Step4 ==
    /\ Step = "p5s4"
    /\ Advance(Msgs("error", "05031",
                    {d \in Defs : /\ realized[d]
                                  /\ final_implementor[d] = d
                                  /\ "abstract" \in ast[d].modifiers}), {}, {})
    /\ UNCHANGED derived
    /\ UNCHANGED inputs

(***************************************************************************)
(* Phase 6                                                                 *)
(***************************************************************************)
\* _phase6_step1: the required items of the specifications of a realized
\* fieldset must be realized.
Phase6Step1 ==
    /\ Step = "p6s1"
    /\ LET fieldsets == {f \in Items : ast[f].cls = "fieldset" /\ realized[f]}
           missing(spec) == {i \in Range(ast[spec].items) :
                               /\ ast[i].cls \in DefClasses
                               /\ "required" \in ast[i].modifiers
                               /\ ~realized[i]}
           bad == UNION {{<<f, spec, i>> : i \in missing(spec)} :
                         <<f, spec>> \in UNION {{f} \X specifications[f] : f \in fieldsets}}
       IN Advance(Msgs("error", "06011", UNION {{t[1], t[2], t[3]} : t \in bad}), {}, {})
    /\ UNCHANGED derived
    /\ UNCHANGED inputs


(***************************************************************************)
(* Phase 7                                                                 *)
(***************************************************************************)
Fields == {i \in Items : ast[i].cls = "field"}

\* The has_field loop of _phase7_step1 and _phase7_step2.
HasField(obj) == SearchContained(members[obj], 1, {obj}, Fields)

\* _phase7_step1 (compile() empties parsed.all_guids before it)
Phase7Step1 ==
    /\ Step = "p7s1"
    /\ all_guids' = <<>>
    /\ LET tops == {f \in Items : ast[f].cls = "fieldset" /\ realized[f] /\ toplevel[f]}
       IN IF \E f \in tops : HasField(f) = "diverges"
          THEN Raise
          ELSE Advance(Msgs("error", "07011", {f \in tops : HasField(f) = "none"}), {}, {})
    /\ UNCHANGED <<direct_implementor, final_implementor, specifications, implementations,
                   ancestors, descendants, members, mbn, unused_deletions, ref,
                   realized, toplevel>>
    /\ UNCHANGED inputs

\* _phase7_step2
Phase7Step2 ==
    /\ Step = "p7s2"
    /\ LET subs == {f \in Items : ast[f].cls = "fieldset" /\ realized[f] /\ ~toplevel[f]}
       IN IF \E f \in subs : HasField(f) = "diverges"
          THEN Raise
          ELSE Advance({}, Msgs("warning", "07021", {f \in subs : HasField(f) = "none"}), {})
    /\ UNCHANGED derived
    /\ UNCHANGED inputs

\* _phase7_step3
Phase7Step3 ==
    /\ Step = "p7s3"
    /\ Advance({}, Msgs("warning", "07031",
                        {f \in Fields : IsOutermost(f) /\ "required" \in ast[f].modifiers}),
               {})
    /\ UNCHANGED derived
    /\ UNCHANGED inputs

\* _phase7_step4
Phase7Step4 ==
    /\ Step = "p7s4"
    /\ LET pairs == {<<obj, spec>> \in Items \X Defs :
                        /\ ast[obj].cls = "fieldset" /\ realized[obj] /\ toplevel[obj]
                        /\ spec \in specifications[obj]
                        /\ ~IsOutermost(spec)}
       IN Advance({}, {}, Msgs("notice", "07041",
                               {p[1] : p \in pairs} \cup {p[2] : p \in pairs}))
    /\ UNCHANGED derived
    /\ UNCHANGED inputs

\* YASDLField.get_referenced_fieldset: None for a universal reference.
GetReferencedFieldset(F) ==
    IF "references" \in DOMAIN mbn[F]
    THEN IF ast[mbn[F]["references"]].args # <<>>
         THEN ref[mbn[F]["references"]][1]
         ELSE NoItem
    ELSE NoItem

\* obj.has_member("type") and its "type" is not one string (a dotted name
\* is a string too).
BadType(obj) ==
    IF "type" \in DOMAIN mbn[obj]
    THEN LET typ == ast[mbn[obj]["type"]]
         IN IF Len(typ.args) # 1 THEN TRUE ELSE typ.args[1].kind \notin {"str", "name"}
    ELSE FALSE

\* A referencing field whose "type" is not 'identifier'.
NotIdentifier(obj) ==
    IF "type" \in DOMAIN mbn[obj] /\ GetReferencedFieldset(obj) # NoItem
    THEN LET typ == ast[mbn[obj]["type"]]
         IN IF typ.args = <<>> THEN FALSE ELSE typ.args[1].val # "identifier"
    ELSE FALSE

\* YASDLField.get_type raises: get_singleprop finds no property, or one
\* without a value.
GetTypeRaises(obj) ==
    IF GetReferencedFieldset(obj) = NoItem /\ "type" \in DOMAIN mbn[obj]
    THEN IF ast[mbn[obj]["type"]].cls # "property" THEN TRUE
         ELSE ast[mbn[obj]["type"]].args = <<>>
    ELSE FALSE

\* YASDLField.get_type, when it returns: "" stands for None.
GetType(obj) ==
    IF GetReferencedFieldset(obj) # NoItem THEN "identifier"
    ELSE IF "type" \in DOMAIN mbn[obj] THEN ast[mbn[obj]["type"]].args[1].val
    ELSE ""

\* _phase7_step5: the type of a field.
Phase7Step5 ==
    /\ Step = "p7s5"
    /\ IF \E f \in Fields : realized[f] /\ GetTypeRaises(f)
       THEN Raise
       ELSE Advance(Msgs("error", "07051", {f \in Fields : BadType(f)}) \cup
                    Msgs("error", "07052", {f \in Fields : NotIdentifier(f)}) \cup
                    Msgs("error", "07054", {f \in Fields : realized[f] /\ GetType(f) = ""}),
                    {}, {})
    /\ UNCHANGED derived
    /\ UNCHANGED inputs

\* _phase7_step14: a schema should say its language.
Phase7Step14 ==
    /\ Step = "p7s14"
    /\ Advance({}, Msgs("warning", "07141",
                        {s \in Items :
                            /\ ast[s].cls = "schema"
                            /\ LET langprop == BindStaticLocal(s, "language")
                               IN IF langprop = NoItem THEN TRUE
                                  ELSE ast[langprop].cls # "property"}),
               {})
    /\ UNCHANGED derived
    /\ UNCHANGED inputs

\* A key of parsed.all_guids: the string a guid property holds (a dotted name
\* is a string too: the text that names its target).
GuidKey(guid) ==
    IF ast[guid].args[1].kind = "name"
    THEN <<"name", ast[guid].args[1].target, ast[guid].args[1].imp>>
    ELSE <<"str", ast[guid].args[1].val>>

\* What _phase7_step11 looks up in parsed.all_guids: the property object.
GuidProbe(guid) == <<"obj", guid>>

\* The guid property is well formed: one string argument.
GuidWellFormed(guid) ==
    IF Len(ast[guid].args) # 1 THEN FALSE ELSE ast[guid].args[1].kind \in {"str", "name"}

RECURSIVE GuidStep(_, _, _)
\* _phase7_step11 for the objects of seq from position k on; st holds
\* all_guids and the messages so far.
GuidStep(seq, k, st) ==
    IF k > Len(seq) THEN st
    ELSE LET obj == seq[k]
             guid == mbn[obj]["guid"]
         IN GuidStep(seq, k + 1,
                IF "guid" \notin DOMAIN mbn[obj] THEN st
                ELSE IF ~GuidWellFormed(guid)
                THEN [st EXCEPT !.errs = st.errs \cup Msgs("error", "07111", {guid})]
                ELSE IF GuidProbe(guid) \in DOMAIN st.guids
                THEN [st EXCEPT !.errs = st.errs \cup
                                 Msgs("error", "07112", {obj, st.guids[GuidProbe(guid)]})]
                ELSE [st EXCEPT !.guids = (GuidKey(guid) :> obj) @@ st.guids])

\* _phase7_step11
Phase7Step11 ==
    /\ Step = "p7s11"
    /\ LET st == GuidStep(IterateAll, 1, [guids |-> all_guids, errs |-> {}])
       IN /\ all_guids' = st.guids
          /\ Advance(st.errs, {}, {})
    /\ UNCHANGED <<direct_implementor, final_implementor, specifications, implementations,
                   ancestors, descendants, members, mbn, unused_deletions, ref,
                   realized, toplevel>>
    /\ UNCHANGED inputs

\* get_singleprop("guid", None) is None
NoGuid(obj) == "guid" \notin DOMAIN mbn[obj]

\* _phase7_step19
Phase7Step19 ==
    /\ Step = "p7s19"
    /\ Advance(Msgs("error", "07181", {s \in Items : ast[s].cls = "schema" /\ NoGuid(s)}) \cup
               Msgs("error", "07182",
                    {f \in Items : /\ ast[f].cls = "fieldset"
                                   /\ realized[f] /\ toplevel[f]
                                   /\ final_implementor[f] = f
                                   /\ NoGuid(f)}), {}, {})
    /\ UNCHANGED derived
    /\ UNCHANGED inputs

Next ==
    \/ OtherStep
    \/ Phase1Step4 \/ Phase1Step6 \/ Phase1Step8 \/ Phase1Step9
    \/ Phase2Step1 \/ Phase2Step2 \/ Phase2Step3 \/ Phase2Step4 \/ Phase2Step5
    \/ Phase3Step1 \/ Phase3Step2 \/ Phase3Step3 \/ Phase3Step4 \/ Phase3Step5
    \/ Phase3Step6 \/ Phase3Step7
    \/ Phase4Step2 \/ Phase4Step3 \/ Phase4Step5
    \/ Phase5Step123 \/ Phase5Step4
    \/ Phase6Step1
    \/ Phase7Step1 \/ Phase7Step2 \/ Phase7Step3 \/ Phase7Step4 \/ Phase7Step5
    \/ Phase7Step11 \/ Phase7Step14 \/ Phase7Step19


(***************************************************************************)
(* The inputs: families of parsed schema sets                              *)
(***************************************************************************)
RECURSIVE SeqOfSet(_)
\* The elements of a set, listed.
SeqOfSet(S) ==
    IF S = {} THEN <<>>
    ELSE LET x == CHOOSE y \in S : TRUE IN <<x>> \o SeqOfSet(S \ {x})

SmallSubsets(S, n) == {T \in SUBSET S : Cardinality(T) <= n}

\* The sequences over S of length at most n without repetition.
RECURSIVE SmallSeqs(_, _)
SmallSeqs(S, n) ==
    IF n = 0 THEN {<<>>}
    ELSE SmallSeqs(S, n - 1) \cup
         {Append(p[1], p[2]) :
             p \in {r \in SmallSeqs(S, n - 1) \X S : Len(r[1]) = n - 1 /\ r[2] \notin Range(r[1])}}

Permutations1(S) == {f \in [S -> 1..Cardinality(S)] : \A x, y \in S : x # y => f[x] # f[y]}

\* The addresses of the objects of a tree: those of the definitions in D as
\* given by a, the others beyond them.
Addresses(tree, a) ==
    [i \in DOMAIN tree |-> IF i \in DOMAIN a THEN a[i] ELSE Cardinality(DOMAIN a) + 1]

GuidProp(v) == Prop(TRUE, "guid", <<SLit(v)>>)

LanguageProp == Prop(TRUE, "language", <<SLit("en")>>)

NoType == "absent"

\* A "type" property, when the field is given a type.
TypeProp(v) == Prop(v # NoType, "type", <<SLit(v)>>)

ImplementsProp(targets) ==
    Prop(targets # {}, "implements",
         [k \in 1..Cardinality(targets) |-> DName(SeqOfSet(targets)[k], FALSE)])

InitDerived ==
    /\ pc = 1
    /\ result = "running"
    /\ has_error = FALSE /\ has_warning = FALSE /\ has_notice = FALSE
    /\ messages = {}
    /\ direct_implementor = [i \in Items |-> Unset]
    /\ final_implementor = [i \in Items |-> Unset]
    /\ specifications = [i \in Items |-> {}]
    /\ implementations = [i \in Items |-> {}]
    /\ ancestors = [i \in Items |-> <<>>]
    /\ descendants = [i \in Items |-> {}]
    /\ members = [i \in Items |-> <<>>]
    /\ mbn = [i \in Items |-> <<>>]
    /\ unused_deletions = [i \in Items |-> {}]
    /\ ref = [i \in Items |-> [k \in 1..Len(ast[i].args) |-> NoItem]]
    /\ realized = [i \in Items |-> FALSE]
    /\ toplevel = [i \in Items |-> FALSE]
    /\ all_guids = <<>>
    /\ OthersIdle

\* Family "implements": fieldsets a, b, c of one schema and fieldset a.n
\* inside a; a, b and c implement up to MaxImplements of the others each; the
\* four objects lie at any addresses.
ImplDefs == {<<"s", "a">>, <<"s", "b">>, <<"s", "c">>, <<"s", "a", "n">>}

ImplTree(imp) ==
    Parse(<< Decl(<<"s">>, "schema", {}, GuidProp("g0") \o LanguageProp, <<>>, <<"a", "b", "c">>),
             Decl(<<"s", "a">>, "fieldset", {}, ImplementsProp(imp[<<"s", "a">>]), <<>>, <<"n">>),
             Decl(<<"s", "a", "n">>, "fieldset", {}, ImplementsProp(imp[<<"s", "a", "n">>]), <<>>, <<>>),
             Decl(<<"s", "b">>, "fieldset", {}, ImplementsProp(imp[<<"s", "b">>]), <<>>, <<>>),
             Decl(<<"s", "c">>, "fieldset", {}, ImplementsProp(imp[<<"s", "c">>]), <<>>, <<>>) >>)

InitImpl ==
    /\ \E imp \in [ImplDefs -> SmallSubsets(ImplDefs, MaxImplements)] :
          /\ \A d \in ImplDefs : d \notin imp[d]
          /\ imp[<<"s", "a", "n">>] = {}
          /\ ast = ImplTree(imp)
    /\ schemas = << <<"s">> >>
    /\ main_srcs = {<<"s">>}
    /\ \E a \in Permutations1(ImplDefs) : addr = Addresses(ast, a)
    /\ strict = FALSE
    /\ fault = NoFault
    /\ InitDerived

SpecImpl == InitImpl /\ [][Next]_vars


(***************************************************************************)
(* Properties                                                              *)
(***************************************************************************)
StepIndex(s) == CHOOSE k \in 1..Len(StepSeq) : StepSeq[k] = s

\* compile() has run step s and gone on (or returned True after the last).
Completed(s) == pc > StepIndex(s) \/ result = "True"

\* compile() has run step s: it went on, or returned right after it.
Acted(s) == pc > StepIndex(s) \/ (pc = StepIndex(s) /\ result \in {"True", "False"})

Reported(code) == \E m \in messages : m[2] = code

\* Two distinct definitions of one implementation tree, one inside the other.
ContainingPairs ==
    {<<A, B>> \in Defs \X Defs :
        A # B /\ final_implementor[A] = final_implementor[B] /\ Owns(A, B)}

\* C3: after phase 2 has completed without error no two distinct definitions
\* that share a final implementor contain each other, and whenever such a pair
\* exists when phase 2 step 5 runs, error 02051 is reported and compile
\* returns False.
C3_NoContainmentInTree ==
    /\ (Completed("p2s5") /\ ~has_error) => ContainingPairs = {}
    /\ (Acted("p2s5") /\ ContainingPairs # {}) =>
           (Reported("02051") /\ result = "False")

\* The state that refutes C3: phase 2 is over without an error and a
\* definition of a tree is inside another definition of the same tree.
C3_MissedPair ==
    /\ Completed("p2s5") /\ ~has_error
    /\ ContainingPairs # {}


AncestorsProp(names) == Prop(names # <<>>, "ancestors", names)

DNames(targets) == {DName(t, i) : t \in targets, i \in BOOLEAN}

\* The addresses when objects lie in the order of a list.
AddressesInOrder(tree, defs) ==
    Addresses(tree, [d \in Range(defs) |-> CHOOSE k \in 1..Len(defs) : defs[k] = d])

\* Family "inheritance": fieldsets a, x, y of one schema; a and y inherit
\* from up to MaxAncestors names, written plain or as "=name"; x and y
\* implement up to MaxImplements of the others.
InhTree(anc_a, anc_y, imp_x, imp_y) ==
    Parse(<< Decl(<<"s">>, "schema", {}, GuidProp("g0") \o LanguageProp, <<>>, <<"a", "x", "y">>),
             Decl(<<"s", "a">>, "fieldset", {}, AncestorsProp(anc_a), <<>>, <<>>),
             Decl(<<"s", "x">>, "fieldset", {}, ImplementsProp(imp_x), <<>>, <<>>),
             Decl(<<"s", "y">>, "fieldset", {},
                  ImplementsProp(imp_y) \o AncestorsProp(anc_y), <<>>, <<>>) >>)

InitInh ==
    /\ \E anc_a \in SmallSeqs(DNames({<<"s", "x">>, <<"s", "y">>}), MaxAncestors),
          anc_y \in SmallSeqs(DNames({<<"s", "a">>, <<"s", "x">>}), MaxAncestors),
          imp_x \in SmallSubsets({<<"s", "a">>, <<"s", "y">>}, MaxImplements),
          imp_y \in SmallSubsets({<<"s", "a">>, <<"s", "x">>}, MaxImplements) :
          ast = InhTree(anc_a, anc_y, imp_x, imp_y)
    /\ schemas = << <<"s">> >>
    /\ main_srcs = {<<"s">>}
    /\ addr = AddressesInOrder(ast, << <<"s", "a">>, <<"s", "x">>, <<"s", "y">> >>)
    /\ strict = FALSE
    /\ fault = NoFault
    /\ InitDerived

SpecInh == InitInh /\ [][Next]_vars


\* The ancestors as stored by phase 3 step 4 lead from d back to d.
OwnAncestor(d) == d \in AncestorsFrom(Range(ancestors[d]))

\* C5: after steps (a) to (e) of phase 3 have completed without error no
\* definition is its own ancestor in the stored ancestors relation, and the
\* materialization of the members (step (f)) ends for every definition.
C5_StoredAncestorsAcyclic ==
    /\ (Completed("p3s5") /\ ~has_error) => \A d \in Defs : ~OwnAncestor(d)
    /\ ~(Step = "stopped" /\ pc = StepIndex("p3s6") /\ result = "raised")

\* The state that refutes C5: the recursion of _cache_members has not ended.
C5_Recursion == pc = StepIndex("p3s6") /\ result = "raised"



FieldDecls(owner, names) ==
    [k \in 1..Cardinality(names) |->
        Decl(owner \o <<SeqOfSet(names)[k]>>, "field", {}, <<>>, <<>>, <<>>)]

MemberNames == {"x", "y"}

\* Family "members": fieldsets p, q and c of one schema with fields named x
\* and y; q may inherit from p, c inherits from up to MaxAncestors of p and q
\* and deletes names; a field w outside may implement the x of c.
MemTree(fp, fq, fc, dc, anc_q, anc_c, w) ==
    Parse(<< Decl(<<"s">>, "schema", {}, GuidProp("g0") \o LanguageProp, <<>>,
                  <<"p", "q", "c">> \o (IF w THEN <<"w">> ELSE <<>>)),
             Decl(<<"s", "p">>, "fieldset", {}, <<>>, <<>>, SeqOfSet(fp)),
             Decl(<<"s", "q">>, "fieldset", {}, AncestorsProp(anc_q), <<>>, SeqOfSet(fq)),
             Decl(<<"s", "c">>, "fieldset", {}, AncestorsProp(anc_c), SeqOfSet(dc),
                  SeqOfSet(fc)) >>
          \o FieldDecls(<<"s", "p">>, fp) \o FieldDecls(<<"s", "q">>, fq)
          \o FieldDecls(<<"s", "c">>, fc)
          \o (IF w THEN << Decl(<<"s", "w">>, "field", {},
                                ImplementsProp({<<"s", "c", "x">>}), <<>>, <<>>) >>
              ELSE <<>>))

InitMem ==
    /\ \E fp \in SUBSET MemberNames, fq \in SUBSET MemberNames, fc \in SUBSET MemberNames,
          dc \in SUBSET MemberNames, w \in BOOLEAN,
          anc_q \in {<<>>, <<DName(<<"s", "p">>, FALSE)>>},
          anc_c \in SmallSeqs({DName(<<"s", "p">>, FALSE), DName(<<"s", "q">>, FALSE)},
                              MaxAncestors) :
          /\ w => "x" \in fc
          /\ ast = MemTree(fp, fq, fc, dc, anc_q, anc_c, w)
    /\ schemas = << <<"s">> >>
    /\ main_srcs = {<<"s">>}
    /\ addr = AddressesInOrder(ast, << <<"s", "p">>, <<"s", "q">>, <<"s", "c">> >>)
    /\ strict = FALSE
    /\ fault = NoFault
    /\ InitDerived

SpecMem == InitMem /\ [][Next]_vars


\* The members an object inherits, in order: those of its ancestors that are
\* neither "implements" nor "ancestors" nor locally deleted.
InheritedOf(obj) ==
    SelectSeq(Concat([k \in 1..Len(ancestors[obj]) |-> members[ancestors[obj][k]]]),
              LAMBDA m : /\ ast[m].name \notin {"implements", "ancestors"}
                         /\ ast[m].name \notin Deletions(obj))

\* The locally declared items of an object that are not deletions.
LocalOf(obj) == SelectSeq(ast[obj].items, LAMBDA i : ast[i].cls # "deletion")

\* The same, every definition standing for its final implementor.
LocalFinalOf(obj) ==
    SelectSeq([k \in 1..Len(ast[obj].items) |-> FinalOrSelf(ast[obj].items[k])],
              LAMBDA i : ast[i].cls # "deletion")

FirstOfName(seq, k) == \A j \in 1..(k - 1) : ast[seq[j]].name # ast[seq[k]].name

LastOfName(seq, n) ==
    seq[CHOOSE k \in 1..Len(seq) :
            /\ ast[seq[k]].name = n
            /\ \A j \in (k + 1)..Len(seq) : ast[seq[j]].name # n]

\* The reference merge of a list of items: one place for every name, where the
\* name comes first, taken by the last item of that name.
Merge(seq) ==
    LET firsts == SelectSeq([k \in 1..Len(seq) |-> IF FirstOfName(seq, k) THEN seq[k] ELSE NoItem],
                            LAMBDA i : i # NoItem)
    IN [k \in 1..Len(firsts) |-> LastOfName(seq, ast[firsts[k]].name)]

\* members and _mbn of an object name the same items, every name once.
MembersConsistent(obj) ==
    /\ \A j, k \in 1..Len(members[obj]) :
          ast[members[obj][j]].name = ast[members[obj][k]].name => j = k
    /\ DOMAIN mbn[obj] = {ast[m].name : m \in Range(members[obj])}
    /\ \A m \in Range(members[obj]) : mbn[obj][ast[m].name] = m

DeletionItems == {i \in Items : ast[i].cls = "deletion"}

\* The members named n that container C would inherit.
InheritedNamed(C, n) ==
    {m \in UNION {Range(members[a]) : a \in Range(ancestors[C])} : ast[m].name = n}

\* The definition named n that C declares, if any.
LocalNamed(C, n) == {i \in Range(ast[C].items) : ast[i].cls \in DefClasses /\ ast[i].name = n}

Warned(i) == <<"warning", "03071", i>> \in messages

\* "delete x" removes the inherited x and nothing else.
DeletionRemoves(d) ==
    LET C == ast[d].owner
        x == ast[d].name
    IN /\ Range(members[C]) \cap InheritedNamed(C, x) = {}
       /\ \A a \in Range(ancestors[C]) : \A m \in Range(members[a]) :
             ast[m].name \notin Deletions(C) \cup {"implements", "ancestors"}
                => ast[m].name \in DOMAIN mbn[C]

\* The warning comes exactly when nothing was inherited under the name.
DeletionWarned(d) == Warned(d) <=> InheritedNamed(ast[d].owner, ast[d].name) = {}

\* C8 as stated: a deletion removes every inherited member of the name and of
\* no other name; when the container also declares the name, compile() ends
\* with the local definition as the effective member of that name; the
\* warning 03071 comes if and only if nothing of that name was inherited.
C8_DeletionAsStated ==
    \A d \in DeletionItems :
        /\ Acted("p3s7") => (DeletionRemoves(d) /\ DeletionWarned(d))
        /\ result # "running" =>
              \A l \in LocalNamed(ast[d].owner, ast[d].name) :
                  /\ ast[d].name \in DOMAIN mbn[ast[d].owner]
                  /\ mbn[ast[d].owner][ast[d].name] = l

\* The state that refutes C8: a container deletes a name it inherits and
\* declares it again, nothing else is wrong with the tree, and compile() has
\* returned False in phase 1 with error 01041 on the local definition, before
\* any member list was made.
C8_RedefinitionRejected ==
    /\ result = "False"
    /\ \E d \in DeletionItems :
          \E l \in LocalNamed(ast[d].owner, ast[d].name) :
              /\ BindStaticLocal(ast[d].owner, "ancestors") # NoItem
              /\ \E a \in Range(ast[BindStaticLocal(ast[d].owner, "ancestors")].args) :
                    BindStaticLocal(a.target, ast[d].name) # NoItem
              /\ messages = {<<"error", "01041", l>>}
              /\ members[ast[d].owner] = <<>>


Required(b) == IF b THEN {"required"} ELSE {}

NoReference == <<"absent">>
Universal == <<"universal">>

\* A "references" property: absent, universal (no argument) or naming t.
ReferencesProp(t) ==
    IF t = NoReference THEN <<>>
    ELSE IF t = Universal THEN Prop(TRUE, "references", <<>>)
    ELSE Prop(TRUE, "references", <<DName(t, FALSE)>>)

\* Family "realization": fieldset iface with field a; fieldset impl with
\* field b, which may implement iface; fieldset t with field k; a field base
\* outside; fieldset u with field f and a nested fieldset n with field g.
\* base and f may reference t or iface, f may inherit from base and may have
\* a type of its own; the fieldsets may be required.
RealTree(req, implements, ref_base, ref_f, type_f, inherits) ==
    Parse(<< Decl(<<"s">>, "schema", {}, GuidProp("g0") \o LanguageProp, <<>>,
                  <<"iface", "impl", "t", "base", "u">>),
             Decl(<<"s", "iface">>, "fieldset", Required("iface" \in req),
                  GuidProp("g1"), <<>>, <<"a">>),
             Decl(<<"s", "iface", "a">>, "field", {}, TypeProp("integer"), <<>>, <<>>),
             Decl(<<"s", "impl">>, "fieldset", Required("impl" \in req),
                  GuidProp("g2") \o
                  ImplementsProp(IF implements THEN {<<"s", "iface">>} ELSE {}),
                  <<>>, <<"b">>),
             Decl(<<"s", "impl", "b">>, "field", {}, TypeProp("integer"), <<>>, <<>>),
             Decl(<<"s", "t">>, "fieldset", Required("t" \in req),
                  GuidProp("g3"), <<>>, <<"k">>),
             Decl(<<"s", "t", "k">>, "field", {}, TypeProp("integer"), <<>>, <<>>),
             Decl(<<"s", "base">>, "field", {},
                  TypeProp(IF ref_base \in {NoReference, Universal} THEN "integer"
                           ELSE "identifier") \o ReferencesProp(ref_base),
                  <<>>, <<>>),
             Decl(<<"s", "u">>, "fieldset", Required("u" \in req),
                  GuidProp("g4"), <<>>, <<"f", "n">>),
             Decl(<<"s", "u", "f">>, "field", {},
                  TypeProp(type_f) \o ReferencesProp(ref_f) \o
                  AncestorsProp(IF inherits THEN <<DName(<<"s", "base">>, FALSE)>> ELSE <<>>),
                  <<>>, <<>>),
             Decl(<<"s", "u", "n">>, "fieldset", {}, <<>>, <<>>, <<"g">>),
             Decl(<<"s", "u", "n", "g">>, "field", {}, TypeProp("integer"), <<>>, <<>>) >>)

ReferenceChoices == {NoReference, Universal, <<"s", "t">>, <<"s", "iface">>}

TypeChoices == {NoType, "integer", "identifier"}

InitReal ==
    /\ \E req \in SUBSET {"iface", "impl", "t", "u"}, implements \in BOOLEAN,
          ref_base \in ReferenceChoices, ref_f \in ReferenceChoices,
          type_f \in TypeChoices, inherits \in BOOLEAN :
          ast = RealTree(req, implements, ref_base, ref_f, type_f, inherits)
    /\ schemas = << <<"s">> >>
    /\ main_srcs = {<<"s">>}
    /\ addr = AddressesInOrder(ast, << <<"s", "iface">>, <<"s", "impl">>, <<"s", "t">>,
                                       <<"s", "u">> >>)
    /\ strict = FALSE
    /\ fault = NoFault
    /\ InitDerived

SpecReal == InitReal /\ [][Next]_vars


RealizedFieldsets == {f \in Items : ast[f].cls = "fieldset" /\ realized[f]}

\* Every specification of a realized definition is realized.
SpecificationsRealized ==
    \A d \in Defs : realized[d] => \A s \in specifications[d] : realized[s]

\* C1 as stated: after phase 5 has completed without error every field and
\* fieldset contained (itercontained) in a realized fieldset is realized and
\* every specification of a realized definition is realized.
C1_RealizedClosed ==
    (Completed("p5s123") /\ ~has_error) =>
        /\ \A F \in RealizedFieldsets :
              \A m \in Contained(F) : ast[m].cls \in DefClasses => realized[m]
        /\ SpecificationsRealized

\* C1, amended: after phase 5 has completed without error every field and
\* fieldset contained in a realized fieldset that is its own final implementor
\* is realized, and every specification of a realized definition is realized
\* (the members of a fieldset realized only as a specification need not be).
C1_RealizedClosedForFinal ==
    (Completed("p5s123") /\ ~has_error) =>
        /\ \A F \in RealizedFieldsets :
              final_implementor[F] = F =>
                  \A m \in Contained(F) : ast[m].cls \in DefClasses => realized[m]
        /\ SpecificationsRealized

\* Phase 5 is over: a required fieldset, its nested fieldset and the fields of
\* both are realized, and so is a specification of a realized fieldset, whose
\* own field is not.
C1_Witness ==
    /\ Completed("p5s123") /\ ~has_error
    /\ \E F \in RealizedFieldsets :
          /\ final_implementor[F] = F
          /\ \E m \in Contained(F) : ast[m].cls = "fieldset" /\ Contained(m) # {} /\ realized[m]
    /\ \E F \in RealizedFieldsets :
          /\ specifications[F] # {}
          /\ \E s \in specifications[F] : \E m \in Contained(s) : ~realized[m]


\* The realized fields with a referenced fieldset.
ReferencingFields ==
    {F \in Defs : ast[F].cls = "field" /\ realized[F] /\ GetReferencedFieldset(F) # NoItem}

\* C2: after a successful compile the final implementor of the fieldset that
\* a realized field references, by a declared or an inherited "references",
\* is realized and top level.
C2_ReferencedIsRealized ==
    result = "True" =>
        \A F \in ReferencingFields :
            /\ realized[final_implementor[GetReferencedFieldset(F)]]
            /\ toplevel[final_implementor[GetReferencedFieldset(F)]]

\* The state that refutes C2: compile has returned True and a realized field
\* references, by inheritance, a fieldset that is not realized.
C2_UnrealizedTarget ==
    /\ result = "True"
    /\ \E F \in ReferencingFields :
          /\ BindStaticLocal(F, "references") = NoItem
          /\ ~realized[final_implementor[GetReferencedFieldset(F)]]



\* What may stand in a check: a string, the field x of the owning fieldset,
\* the field z of another fieldset, the other fieldset itself.
CheckArgs ==
    {SLit("0 <"), DName(<<"s", "o", "x">>, FALSE), DName(<<"s", "other", "z">>, FALSE),
     DName(<<"s", "other">>, FALSE)}

\* Family "check": fieldset o with field x and constraint c, whose check has
\* up to MaxCheckItems arguments; fieldset other with field z.
ChkTree(args) ==
    Parse(<< Decl(<<"s">>, "schema", {}, GuidProp("g0") \o LanguageProp, <<>>, <<"o", "other">>),
             Decl(<<"s", "o">>, "fieldset", {"required"}, GuidProp("g1"), <<>>, <<"x", "c">>),
             Decl(<<"s", "o", "x">>, "field", {}, TypeProp("integer"), <<>>, <<>>),
             Decl(<<"s", "o", "c">>, "constraint", {}, Prop(TRUE, "check", args), <<>>, <<>>),
             Decl(<<"s", "other">>, "fieldset", {"required"}, GuidProp("g2"), <<>>, <<"z">>),
             Decl(<<"s", "other", "z">>, "field", {}, TypeProp("integer"), <<>>, <<>>) >>)

InitChk ==
    /\ \E args \in SmallSeqs(CheckArgs, MaxCheckItems) : ast = ChkTree(args)
    /\ schemas = << <<"s">> >>
    /\ main_srcs = {<<"s">>}
    /\ addr = AddressesInOrder(ast, << <<"s", "o">>, <<"s", "other">> >>)
    /\ strict = FALSE
    /\ fault = NoFault
    /\ InitDerived

SpecChk == InitChk /\ [][Next]_vars


Constraints == {c \in Items : ast[c].cls = "constraint"}

\* The dotted names of the check of constraint c that are bound to a field
\* which the fieldset owning c does not contain.
ForeignFields(c) ==
    IF GetCheck(c) = NoItem THEN {}
    ELSE {k \in DottedAt(GetCheck(c)) :
             /\ ast[ref[GetCheck(c)][k]].cls = "field"
             /\ Contains(ast[c].owner, ref[GetCheck(c)][k]) # "found"}

\* C10: phase 4 rejects with 04054 every constraint whose check holds, at any
\* position, a dotted name bound to a field that the owning fieldset does not
\* contain; after a successful phase 4 every dotted name of every check is a
\* field the owning fieldset contains.
C10_ForeignFieldRejected ==
    /\ Acted("p4s5") =>
          \A c \in Constraints :
              ForeignFields(c) # {} => (Reported("04054") /\ result = "False")
    /\ (Completed("p4s5") /\ ~has_error) =>
          \A c \in Constraints : GetCheck(c) # NoItem =>
              \A k \in DottedAt(GetCheck(c)) :
                  /\ ast[ref[GetCheck(c)][k]].cls = "field"
                  /\ Contains(ast[c].owner, ref[GetCheck(c)][k]) = "found"

\* The state that refutes C10: phase 4 is over without error and a check
\* names a field of another fieldset.
C10_ForeignFieldAccepted ==
    /\ Completed("p4s5") /\ ~has_error
    /\ \E c \in Constraints : ForeignFields(c) # {}


GuidNames == <<"g1", "g2", "g3", "g4", "g5">>

NoGuidValue == "absent"

\* The guid values drawn: MaxGuidValues strings, or no guid at all.
GuidValues == {GuidNames[k] : k \in 1..MaxGuidValues} \cup {NoGuidValue}

OptGuidProp(v) == IF v = NoGuidValue THEN <<>> ELSE GuidProp(v)

\* Family "guid": a schema with fieldsets t, u, v of one field each; the
\* schema and the fieldsets carry a guid out of MaxGuidValues values or none;
\* the fieldsets may be required.
GuidTree(g, req) ==
    Parse(<< Decl(<<"s">>, "schema", {}, OptGuidProp(g["s"]) \o LanguageProp, <<>>, <<"t", "u", "v">>),
             Decl(<<"s", "t">>, "fieldset", Required("t" \in req), OptGuidProp(g["t"]),
                  <<>>, <<"k">>),
             Decl(<<"s", "t", "k">>, "field", {}, TypeProp("integer"), <<>>, <<>>),
             Decl(<<"s", "u">>, "fieldset", Required("u" \in req), OptGuidProp(g["u"]),
                  <<>>, <<"k">>),
             Decl(<<"s", "u", "k">>, "field", {}, TypeProp("integer"), <<>>, <<>>),
             Decl(<<"s", "v">>, "fieldset", Required("v" \in req), OptGuidProp(g["v"]),
                  <<>>, <<"k">>),
             Decl(<<"s", "v", "k">>, "field", {}, TypeProp("integer"), <<>>, <<>>) >>)

InitGuid ==
    /\ \E g \in [{"s", "t", "u", "v"} -> GuidValues], req \in SUBSET {"t", "u", "v"} :
          ast = GuidTree(g, req)
    /\ schemas = << <<"s">> >>
    /\ main_srcs = {<<"s">>}
    /\ addr = AddressesInOrder(ast, << <<"s", "t">>, <<"s", "u">>, <<"s", "v">> >>)
    /\ strict = FALSE
    /\ fault = NoFault
    /\ InitDerived

SpecGuid == InitGuid /\ [][Next]_vars

\* Family "compile": one schema whose tree may hold a name both deleted and
\* defined, a fieldset that is both abstract and final, a deletion of a name
\* nobody has, a required field outside any fieldset, a realized field
\* without type, no language and a realized fieldset without guid; strict or not;
\* one of the other validation steps may find a fault.
CompileFlaws == {"duplicate", "abstractfinal", "deletion", "requiredfield", "untyped",
                 "nolanguage", "noguid"}

CompileTree(flaws) ==
    Parse(<< Decl(<<"s">>, "schema", {},
                  GuidProp("g0") \o Prop("nolanguage" \notin flaws, "language", <<SLit("en")>>),
                  <<>>, <<"t", "u", "h">>),
             Decl(<<"s", "t">>, "fieldset",
                  {"required"} \cup (IF "abstractfinal" \in flaws THEN {"abstract", "final"}
                                     ELSE {}),
                  GuidProp("g1"),
                  (IF "deletion" \in flaws THEN <<"x">> ELSE <<>>) \o
                  (IF "duplicate" \in flaws THEN <<"k">> ELSE <<>>),
                  <<"k">>),
             Decl(<<"s", "t", "k">>, "field", {}, TypeProp("integer"), <<>>, <<>>),
             Decl(<<"s", "u">>, "fieldset", {"required"},
                  OptGuidProp(IF "noguid" \in flaws THEN NoGuidValue ELSE "g2"),
                  <<>>, <<"k">>),
             Decl(<<"s", "u", "k">>, "field", {},
                  TypeProp(IF "untyped" \in flaws THEN NoType ELSE "integer"), <<>>, <<>>),
             Decl(<<"s", "h">>, "field", Required("requiredfield" \in flaws),
                  TypeProp("integer"), <<>>, <<>>) >>)

InitCompile ==
    /\ \E flaws \in SUBSET CompileFlaws : ast = CompileTree(flaws)
    /\ schemas = << <<"s">> >>
    /\ main_srcs = {<<"s">>}
    /\ addr = AddressesInOrder(ast, << <<"s", "t">>, <<"s", "u">> >>)
    /\ strict \in BOOLEAN
    /\ fault \in {f \in Faults : FaultOK(f)}
    /\ InitDerived

SpecCompile == InitCompile /\ [][Next]_vars


\* The definitions that carry a guid property with one string.
WithGuid == {d \in Items : "guid" \in DOMAIN mbn[d] /\ GuidWellFormed(mbn[d]["guid"])}

GuidValue(d) == GuidKey(mbn[d]["guid"])

DuplicateGuids == {<<d, e>> \in WithGuid \X WithGuid : d # e /\ GuidValue(d) = GuidValue(e)}

\* The schemas and the self-realized top level fieldsets.
GuidBearers ==
    {d \in Items :
        \/ ast[d].cls = "schema"
        \/ /\ ast[d].cls = "fieldset"
           /\ realized[d] /\ toplevel[d] /\ final_implementor[d] = d}

\* C6: a compilation in which two distinct definitions carry the same guid
\* value is rejected with 07112; after a successful compile the guids of the
\* schemas and self-realized top level fieldsets are pairwise distinct.
C6_GuidsDistinct ==
    /\ (Acted("p7s11") /\ DuplicateGuids # {}) => (Reported("07112") /\ result = "False")
    /\ result = "True" =>
          \A d, e \in GuidBearers \cap WithGuid : d # e => GuidValue(d) # GuidValue(e)

\* The state that refutes C6: compile has returned True and two realized top
\* level fieldsets have the same guid.
C6_SharedGuid ==
    /\ result = "True"
    /\ \E d, e \in GuidBearers \cap WithGuid :
          d # e /\ ast[d].cls = "fieldset" /\ GuidValue(d) = GuidValue(e)

PhaseEnds == {"p1s9", "p2s5", "p3s7", "p4s5", "p5s4", "p6s1", "p7s19"}

\* The phase of the k-th step of compile().
PhaseOf(k) == Cardinality({j \in 1..(k - 1) : StepSeq[j] \in PhaseEnds}) + 1

\* What makes compile() give up: an error, or a warning when strict.
Flagged == has_error \/ (strict /\ has_warning)

\* C9: compile runs the steps of phases 1 to 8 in their order; once a step
\* has recorded an error (a warning when strict), no step of a later phase
\* runs and compile returns False; it returns True only when no error (and,
\* when strict, no warning) was recorded.  Every step either goes on to the
\* next step or returns.
C9_PhasesInOrder ==
    /\ [][/\ pc' \in {pc, pc + 1}
          /\ PhaseOf(pc') >= PhaseOf(pc)
          /\ Flagged => PhaseOf(pc') = PhaseOf(pc)
          /\ (Flagged /\ result # "running") => result = "False"
          /\ (Flagged' /\ result' # "running") => result' = "False"
          /\ result = "running" =>
                \/ pc' = pc + 1 /\ result' = "running"
                \/ pc' = pc /\ result' # "running"
          /\ result # "running" => (result' = result /\ messages' = messages)]_vars
    /\ [](result = "True" => (pc = Len(StepSeq) /\ ~has_error /\ (strict => ~has_warning)))
    /\ [](result = "False" => Flagged)

\* compile has returned False right after a step of phase 7 that recorded a
\* warning in strict mode, with the steps of phases 1 to 6 behind it.
C9_Witness ==
    /\ result = "False" /\ strict /\ has_warning /\ ~has_error
    /\ PhaseOf(pc) = 7
    /\ Cardinality(messages) = 1

(***************************************************************************)
(* YASDLParseResult.parse (venus.db.yasdl.parser): loading a schema set    *)
(***************************************************************************)
MaxUses == 2            \* use statements of one schema

Dirs == {"d1", "d2"}

SchemaNames == {"a", "b", "c"}

\* A python exception leaves parse().
ParseRaise ==
    /\ p_pc' = "raised"
    /\ UNCHANGED <<p_schemas, p_main_srcs, p_errorcount, p_parse_needed,
                   p_new_schemas, p_use_src, p_use_schema, p_loaded>>

RECURSIVE LocateLocal(_, _)
\* locate_local: the file of the name in the first directory of the search
\* path that holds one; "missing" stands for YASDLSchemaLocationError.
LocateLocal(name, search_path) ==
    IF search_path = <<>> THEN "missing"
    ELSE IF <<Head(search_path), name>> \in DOMAIN p_fs
         THEN <<Head(search_path), name>>
         ELSE LocateLocal(name, Tail(search_path))

RECURSIVE RemoveFirst(_, _)
\* list.remove(x), for a list that holds x
RemoveFirst(s, x) ==
    IF s = <<>> THEN <<>>
    ELSE IF Head(s) = x THEN Tail(s) ELSE <<Head(s)>> \o RemoveFirst(Tail(s), x)

\* parse_file and parse_str: the schema of the file, its search path the
\* directory of the file followed by the search path of parse().
ParseFile(src, search_path) ==
    [package_name |-> p_fs[src].package_name,
     uses |-> p_fs[src].uses,
     search_path |-> <<src[1]>> \o (IF src[1] \in Range(search_path)
                                    THEN RemoveFirst(search_path, src[1])
                                    ELSE search_path)]

RECURSIVE MainSrcs(_, _)
\* The first loop of parse(): the sources of the main schemas, each once.
MainSrcs(fpaths, srcs) ==
    IF fpaths = <<>> THEN srcs
    ELSE LET src == LocateLocal(Head(fpaths), p_search_path)
         IN IF src = "missing" THEN "missing"
            ELSE MainSrcs(Tail(fpaths), IF src \in Range(srcs) THEN srcs ELSE Append(srcs, src))

ParseBegin ==
    /\ p_pc = "begin"
    /\ LET srcs == MainSrcs(p_fpaths, <<>>)
       IN IF srcs = "missing"
          THEN ParseRaise
          ELSE /\ p_parse_needed' = [k \in 1..Len(srcs) |-> <<srcs[k]>>]
               /\ p_main_srcs' = srcs
               /\ p_pc' = IF srcs = <<>> THEN "bind" ELSE "load"
               /\ UNCHANGED <<p_schemas, p_errorcount, p_new_schemas,
                              p_use_src, p_use_schema, p_loaded>>
    /\ UNCHANGED <<p_fs, p_fpaths, p_search_path>>

RECURSIVE LoadAllAgain(_, _)
\* A variant of LoadAll without the test "src not in self.schemas": a source
\* that two schemas use is loaded once for each of them.
LoadAllAgain(parse_needed, st) ==
    IF parse_needed = <<>> THEN st
    ELSE LET use_stack == Head(parse_needed)
             src == use_stack[1]
         IN LoadAllAgain(Tail(parse_needed),
                         [schemas |-> [s \in DOMAIN st.schemas \cup {src} |->
                                          IF s = src
                                          THEN [schema |-> ParseFile(src, p_search_path),
                                                use_stack |-> use_stack]
                                          ELSE st.schemas[s]],
                          new_schemas |-> Append(st.new_schemas, src),
                          loaded |-> Append(st.loaded, src)])

RECURSIVE LoadAll(_, _)
\* The loop over parse_needed: every source that is not in self.schemas is
\* loaded and parsed.  st = [schemas, new_schemas, loaded].
LoadAll(parse_needed, st) ==
    IF parse_needed = <<>> THEN st
    ELSE LET use_stack == Head(parse_needed)
             src == use_stack[1]
         IN LoadAll(Tail(parse_needed),
                    IF src \in DOMAIN st.schemas THEN st
                    ELSE [schemas |-> [s \in DOMAIN st.schemas \cup {src} |->
                                          IF s = src
                                          THEN [schema |-> ParseFile(src, p_search_path),
                                                use_stack |-> use_stack]
                                          ELSE st.schemas[s]],
                          new_schemas |-> Append(st.new_schemas, src),
                          loaded |-> Append(st.loaded, src)])

ParseLoad ==
    /\ p_pc = "load"
    /\ LET st == LoadAll(p_parse_needed,
                         [schemas |-> p_schemas, new_schemas |-> <<>>, loaded |-> p_loaded])
       IN /\ p_schemas' = st.schemas
          /\ p_new_schemas' = st.new_schemas
          /\ p_loaded' = st.loaded
    /\ p_parse_needed' = <<>>
    /\ p_pc' = "scan"
    /\ UNCHANGED <<p_main_srcs, p_errorcount, p_use_src, p_use_schema>>
    /\ UNCHANGED <<p_fs, p_fpaths, p_search_path>>

\* The use statements of the schemas loaded in this round, in the order of
\* the loop: <<source, position>>.
NewUses ==
    Concat([n \in 1..Len(p_new_schemas) |->
               [k \in 1..Len(p_schemas[p_new_schemas[n]].schema.uses) |->
                   <<p_new_schemas[n], k>>]])

RECURSIVE ScanAll(_, _)
\* The loop over the use statements of the new schemas: each is located on
\* the search path of its schema, use.src is set, and a source that is not in
\* self.schemas is put on parse_needed.  st = [use_src, parse_needed, raised].
ScanAll(uses, st) ==
    IF uses = <<>> \/ st.raised THEN st
    ELSE LET u == Head(uses)
             schema == p_schemas[u[1]]
             src == LocateLocal(schema.schema.uses[u[2]], schema.schema.search_path)
         IN IF src = "missing"
            THEN [st EXCEPT !.raised = TRUE]
            ELSE ScanAll(Tail(uses),
                         [use_src |-> [x \in DOMAIN st.use_src \cup {u} |->
                                          IF x = u THEN src ELSE st.use_src[x]],
                          parse_needed |-> IF src \in DOMAIN p_schemas
                                           THEN st.parse_needed
                                           ELSE Append(st.parse_needed,
                                                       <<src>> \o schema.use_stack),
                          raised |-> FALSE])

ParseScan ==
    /\ p_pc = "scan"
    /\ LET st == ScanAll(NewUses, [use_src |-> p_use_src, parse_needed |-> <<>>,
                                   raised |-> FALSE])
       IN /\ p_use_src' = st.use_src
          /\ p_parse_needed' = st.parse_needed
          /\ p_pc' = IF st.raised THEN "raised"
                     ELSE IF st.parse_needed = <<>> THEN "bind" ELSE "load"
    /\ UNCHANGED <<p_schemas, p_main_srcs, p_errorcount, p_new_schemas,
                   p_use_schema, p_loaded>>
    /\ UNCHANGED <<p_fs, p_fpaths, p_search_path>>

\* The use statements of the loaded schemas.
UsesOf(loaded) ==
    {u \in (DOMAIN loaded) \X (1..MaxUses) : u[2] <= Len(loaded[u[1]].schema.uses)}

\* "Set schema attribute for all use statements": use.schema = self.schemas[use.src]
ParseBind ==
    /\ p_pc = "bind"
    /\ IF \E u \in UsesOf(p_schemas) : u \notin DOMAIN p_use_src \/ p_use_src[u] \notin DOMAIN p_schemas
       THEN ParseRaise
       ELSE /\ p_use_schema' = [u \in UsesOf(p_schemas) |-> p_use_src[u]]
            /\ p_pc' = "check"
            /\ UNCHANGED <<p_schemas, p_main_srcs, p_errorcount, p_parse_needed,
                           p_new_schemas, p_use_src, p_loaded>>
    /\ UNCHANGED <<p_fs, p_fpaths, p_search_path>>

\* The use statements that name a package other than the one they are bound to (E001).
InvalidPackageNames ==
    {u \in UsesOf(p_schemas) :
        p_schemas[u[1]].schema.uses[u[2]] # p_schemas[p_use_schema[u]].schema.package_name}

\* The loaded schemas whose package name is that of another one (E002).
DuplicatePackageNames ==
    {s \in DOMAIN p_schemas :
        \E t \in DOMAIN p_schemas :
            t # s /\ p_schemas[t].schema.package_name = p_schemas[s].schema.package_name}

\* The two checks of the package names and the return of parse().  The
\* message of E001 is built with use.getpath(), which fails for a use
\* statement, whose owner is not set before the end of parse(): the first use
\* of a wrong package name ends parse() with an exception.
ParseCheck ==
    /\ p_pc = "check"
    /\ IF InvalidPackageNames # {}
       THEN ParseRaise
       ELSE LET errors == p_errorcount + Cardinality(DuplicatePackageNames)
            IN /\ p_errorcount' = errors
               /\ p_pc' = IF errors = 0 THEN "True" ELSE "False"
               /\ UNCHANGED <<p_schemas, p_main_srcs, p_parse_needed, p_new_schemas,
                              p_use_src, p_use_schema, p_loaded>>
    /\ UNCHANGED <<p_fs, p_fpaths, p_search_path>>

compiler == <<ast, schemas, main_srcs, addr, strict, fault, pc, result,
              has_error, has_warning, has_notice, messages, derived>>

NextParse ==
    /\ \/ ParseBegin
       \/ ParseLoad
       \/ ParseScan
       \/ ParseBind
       \/ ParseCheck
    /\ UNCHANGED <<compiler, namer, processor, planner, services>>

\* No compile() is under way.
CompilerIdle ==
    /\ ast = <<>> /\ schemas = <<>> /\ main_srcs = {} /\ addr = <<>>
    /\ strict = FALSE /\ fault = NoFault
    /\ pc = 1 /\ result = "idle"
    /\ has_error = FALSE /\ has_warning = FALSE /\ has_notice = FALSE
    /\ messages = {}
    /\ direct_implementor = <<>> /\ final_implementor = <<>>
    /\ specifications = <<>> /\ implementations = <<>>
    /\ ancestors = <<>> /\ descendants = <<>>
    /\ members = <<>> /\ mbn = <<>> /\ unused_deletions = <<>>
    /\ ref = <<>> /\ realized = <<>> /\ toplevel = <<>>
    /\ all_guids = <<>>

\* The files a schema set is made of: a.yasdl, b.yasdl and c.yasdl in d1,
\* another c.yasdl in d2.
FileChoices == {<<"d1", "a">>, <<"d1", "b">>, <<"d1", "c">>, <<"d2", "c">>}

\* The lists of at most MaxUses names a schema of the given name can use: a
\* and b use each other and c, c uses a.
UseLists(name) ==
    IF name = "c" THEN SmallSeqs({"a"}, MaxUses)
    ELSE {u \in SmallSeqs(SchemaNames \ {name}, MaxUses) : Len(u) = 2 => u[2] = "c"}

\* The package name a file declares: the name it is found under, or "a".
PackageNames(name) == {name, "a"}

\* Family "parse": any of the files, each declaring its package name and
\* using other names; one or two main schemas; a search path of one or both
\* directories.
InitParse ==
    /\ \E F \in SUBSET FileChoices :
          p_fs \in {fs \in [F -> UNION {[package_name : PackageNames(n), uses : UseLists(n)] :
                                          n \in SchemaNames}] :
                       \A f \in F : /\ fs[f].package_name \in PackageNames(f[2])
                                    /\ fs[f].uses \in UseLists(f[2])}
    /\ p_fpaths \in {<<"a">>, <<"a", "b">>, <<"c", "a">>}
    /\ p_search_path \in {<<"d1">>, <<"d2", "d1">>}
    /\ p_pc = "begin"
    /\ p_schemas = <<>> /\ p_main_srcs = <<>> /\ p_errorcount = 0
    /\ p_parse_needed = <<>> /\ p_new_schemas = <<>>
    /\ p_use_src = <<>> /\ p_use_schema = <<>> /\ p_loaded = <<>>
    /\ CompilerIdle /\ NamerIdle /\ ProcessorIdle /\ PlannerIdle /\ ServicesIdle

SpecParse == InitParse /\ [][NextParse]_vars

ParseRunning == p_pc \in {"begin", "load", "scan", "bind", "check"}

ParseReturned == p_pc \in {"True", "False"}

\* C11: parse() comes to an end for every set of files, cycles of use
\* statements included: every round of its loop loads a source that was not
\* loaded before, and every step but the last has a next step.  No source is
\* loaded and parsed twice.  When parse() returns, every use statement of every
\* loaded schema is bound to the loaded schema of the source its name resolves
\* to; it returns True only if every use names the package name of its target
\* and no two loaded schemas have the same package name.
C11_ParseLoadsOnce ==
    /\ \A i, j \in 1..Len(p_loaded) : i # j => p_loaded[i] # p_loaded[j]
    /\ Range(p_loaded) = DOMAIN p_schemas
    /\ DOMAIN p_schemas \subseteq DOMAIN p_fs
    /\ p_pc = "load" =>
          \E k \in 1..Len(p_parse_needed) : p_parse_needed[k][1] \notin DOMAIN p_schemas
    /\ ParseRunning => ENABLED NextParse
    /\ ParseReturned =>
          \A u \in UsesOf(p_schemas) :
              /\ u \in DOMAIN p_use_schema
              /\ p_use_schema[u] \in DOMAIN p_schemas
              /\ p_use_schema[u] = LocateLocal(p_schemas[u[1]].schema.uses[u[2]],
                                               p_schemas[u[1]].schema.search_path)
    /\ p_pc = "True" =>
          /\ \A u \in UsesOf(p_schemas) :
                p_schemas[u[1]].schema.uses[u[2]] =
                    p_schemas[p_use_schema[u]].schema.package_name
          /\ \A s, t \in DOMAIN p_schemas :
                s # t => p_schemas[s].schema.package_name # p_schemas[t].schema.package_name

\* parse() has returned True for two schemas that use each other, one of them
\* used by both main schemas, each loaded once.
C11_Witness ==
    /\ p_pc = "True"
    /\ Len(p_loaded) = 2
    /\ Len(p_main_srcs) = 2
    /\ \E u, v \in UsesOf(p_schemas) :
          /\ u[1] # v[1]
          /\ p_use_schema[u] = v[1]
          /\ p_use_schema[v] = u[1]

(***************************************************************************)
(* Connection.hashname / makename / makepkname (venus.db.dbo.connection):  *)
(* physical names.  A name is a sequence of characters.                    *)
(***************************************************************************)
MaxNameLen == 34                \* characters of one name of a path

max_identifier_length == 31     \* Connection.max_identifier_length

pg_max_identifier_length == 63  \* the PostgreSQL and Oracle connections

name_separator == <<"$">>

Base64 == <<"A", "Q", "g", "w", "0", "8", "_", "$">>

\* The first six characters of the base64 text (with "_" and "$" for "+" and
\* "/") of the SHA-256 digest of the name: six characters of that alphabet
\* which depend on the whole name.
Digest6(basename) ==
    LET count(c) == Cardinality({k \in 1..Len(basename) : basename[k] = c})
        at(n) == Base64[(n % Len(Base64)) + 1]
    IN << at(Len(basename)), at(count("a")), at(count("b")), at(count("$")),
          at(count("a") + 3 * count("b")), at(Len(basename) \div 8) >>

\* A variant of Hashname that cuts the name at the limit, leaving no room
\* for the eight characters it appends.
HashnameLong(basename, limit) ==
    IF Len(basename) > limit
    THEN SubSeq(basename, 1, limit) \o <<"_", "_">> \o Digest6(basename)
    ELSE basename

\* hashname, for a class with the given max_identifier_length
Hashname(basename, limit) ==
    IF Len(basename) > limit
    THEN SubSeq(basename, 1, limit - 8) \o <<"_", "_">> \o Digest6(basename)
    ELSE basename

RECURSIVE Join(_, _)
\* sep.join(names)
Join(sep, names) ==
    IF names = <<>> THEN <<>>
    ELSE IF Len(names) = 1 THEN names[1]
         ELSE names[1] \o sep \o Join(sep, Tail(names))

\* makename(*path), the path given by the names of its items
Makename(path, limit) == Hashname(Join(name_separator, path), limit)

\* maketablename(table)
Maketablename(table, limit) == Makename(<<table>>, limit)

\* makepkname(table)
Makepkname(table, limit) == Makename(<< <<"p", "k">>, Maketablename(table, limit) >>, limit)

\* A call of makename for the path.
MakeName ==
    /\ n_pc = "path"
    /\ n_name' = Makename(n_path, n_limit)
    /\ n_pc' = "name"
    /\ UNCHANGED <<n_limit, n_path, n_pkname>>

\* A call of makepkname for the table whose name is the first of the path.
MakePkName ==
    /\ n_pc = "name"
    /\ n_pkname' = Makepkname(n_path[1], n_limit)
    /\ n_pc' = "pkname"
    /\ UNCHANGED <<n_limit, n_path, n_name>>

NextName ==
    /\ \/ MakeName
       \/ MakePkName
    /\ UNCHANGED <<compiler, parser, processor, planner, services>>

\* The name of n times the character c.
Repeat(c, n) == [k \in 1..n |-> c]

\* Family "names": paths of one or two names of up to MaxNameLen characters,
\* the first of "a"s and the second of "b"s, for the limit of the base class
\* and that of the PostgreSQL and Oracle connections.
InitName ==
    /\ n_limit \in {max_identifier_length, pg_max_identifier_length}
    /\ \E n, m \in 1..MaxNameLen :
          n_path \in {<<Repeat("a", n)>>, <<Repeat("a", n), Repeat("b", m)>>}
    /\ n_pc = "path"
    /\ n_name = <<>> /\ n_pkname = <<>>
    /\ CompilerIdle /\ ParserIdle /\ ProcessorIdle /\ PlannerIdle /\ ServicesIdle

SpecName == InitName /\ [][NextName]_vars

\* C12: for every path and limit L (of at least 8) makename returns a name of
\* at most L characters: the joined form itself when it has at most L
\* characters, and otherwise exactly L characters, which are the first L - 8
\* characters of the joined form, "__" and six characters of the hash.  The
\* same holds for makepkname, whose joined form is "pk$" and the mangled name
\* of the table.
C12_NameWithinLimit ==
    LET Mangled(joined, name) ==
            /\ Len(name) <= n_limit
            /\ Len(joined) <= n_limit => name = joined
            /\ Len(joined) > n_limit =>
                  /\ Len(name) = n_limit
                  /\ SubSeq(name, 1, n_limit - 8) = SubSeq(joined, 1, n_limit - 8)
                  /\ SubSeq(name, n_limit - 7, n_limit - 6) = <<"_", "_">>
                  /\ \A k \in (n_limit - 5)..n_limit : name[k] \in Range(Base64)
    IN /\ n_limit >= 8
       /\ n_pc \in {"name", "pkname"} => Mangled(Join(<<"$">>, n_path), n_name)
       /\ n_pc = "pkname" =>
             /\ Len(n_path[1]) <= n_limit => Mangled(<<"p", "k", "$">> \o n_path[1], n_pkname)
             /\ Mangled(<<"p", "k", "$">> \o Makename(<<n_path[1]>>, n_limit), n_pkname)

\* The name of a table that is one character longer than the limit has been
\* mangled, and the primary key name has been made from the mangled name and
\* mangled again.
C12_Witness ==
    /\ n_pc = "pkname"
    /\ Len(n_path[1]) = n_limit + 1
    /\ Len(Makename(<<n_path[1]>>, n_limit)) = n_limit
    /\ Len(n_pkname) = n_limit
    /\ SubSeq(n_pkname, 1, 3) = <<"p", "k", "$">>
    /\ Len(n_name) = n_limit

\* A path whose joined form has exactly as many characters as the limit
\* allows has been returned as it is.
C12_WitnessExact ==
    /\ n_pc = "name"
    /\ Len(n_path) = 2
    /\ Len(n_name) = n_limit
    /\ n_name = Join(<<"$">>, n_path)

(***************************************************************************)
(* SQLProcessor (venus.db.dbo.sqlprocessor): a processor with a buffer and *)
(* subprocessors.  A text is a sequence of characters.  The state of a     *)
(* tree of processors is a record: buffer (processor -> text), calls (the  *)
(* calls made so far, <<processor, method, argument>>) and raised.         *)
(***************************************************************************)
MaxBuffer == 3      \* characters in a buffer
MaxCalls == 4       \* calls made on the parent processor

Processors == {"P", "S1", "S2"}

Called(st, proc, method, arg) == [st EXCEPT !.calls = Append(@, <<proc, method, arg>>)]

RECURSIVE EachSubprocessor(_, _, _, _)
\* for subprocessor in self.subprocessors: Call(subprocessor, ...), which an
\* exception leaves
EachSubprocessor(Call(_, _, _), subs, st, procs) ==
    IF procs = <<>> \/ st.raised THEN st
    ELSE EachSubprocessor(Call, subs, Call(Head(procs), subs, st), Tail(procs))

RECURSIVE Addbuffer(_, _, _, _)
\* addbuffer(txt)
Addbuffer(proc, subs, st, txt) ==
    LET Sub(p, sb, s) == Addbuffer(p, sb, s, txt)
        own == [Called(st, proc, "addbuffer", txt) EXCEPT !.buffer[proc] = @ \o txt]
    IN EachSubprocessor(Sub, subs, own, subs[proc])

RECURSIVE Addline(_, _, _, _)
\* addline(line)
Addline(proc, subs, st, line) ==
    LET Sub(p, sb, s) == Addline(p, sb, s, line)
        own == [Called(st, proc, "addline", line) EXCEPT !.buffer[proc] = @ \o line \o <<"\n">>]
    IN EachSubprocessor(Sub, subs, own, subs[proc])

\* buffer.rfind(","), counted from 1; 0 when there is none
Rfind(buffer) ==
    LET at == {k \in 1..Len(buffer) : buffer[k] = ","}
    IN IF at = {} THEN 0 ELSE CHOOSE k \in at : \A j \in at : j <= k

RECURSIVE Truncate_last_comma(_, _, _)
\* truncate_last_comma()
Truncate_last_comma(proc, subs, st) ==
    LET index == Rfind(st.buffer[proc])
        own == IF index > 0
               THEN [Called(st, proc, "truncate_last_comma", <<>>)
                        EXCEPT !.buffer[proc] = SubSeq(@, 1, index - 1)]
               ELSE Called(st, proc, "truncate_last_comma", <<>>)
    IN EachSubprocessor(Truncate_last_comma, subs, own, subs[proc])

RECURSIVE Processbuffer(_, _, _, _, _)
\* processbuffer(ignore_exceptions), when doprocessbuffer raises in the
\* processors of failing: the buffer is cleared on both paths, the exception
\* raised again unless ignored, and only then come the subprocessors
Processbuffer(proc, subs, st, ignore_exceptions, failing) ==
    LET Sub(p, sb, s) == Processbuffer(p, sb, s, ignore_exceptions, failing)
        own == [Called(st, proc, "processbuffer", ignore_exceptions) EXCEPT !.buffer[proc] = <<>>]
    IN IF proc \in failing /\ ~ignore_exceptions
       THEN [own EXCEPT !.raised = TRUE]
       ELSE EachSubprocessor(Sub, subs, own, subs[proc])

\* The processors of the tree under the parent "P".
RECURSIVE Below(_, _)
Below(proc, subs) ==
    IF subs[proc] = <<>> THEN <<proc>>
    ELSE <<proc>> \o Concat([k \in 1..Len(subs[proc]) |-> Below(subs[proc][k], subs)])

\* The state of the tree before a call on the parent.
Before == [buffer |-> q_buffer, calls |-> <<>>, raised |-> FALSE]

\* The call on the parent is over.
Returned(st) ==
    /\ q_buffer' = st.buffer
    /\ q_last' = st.calls
    /\ q_raised' = st.raised
    /\ q_calls' = q_calls + 1
    /\ UNCHANGED q_subprocessors

\* addsubprocessor, on a processor of the tree and before anything was put
\* into a buffer.
AddSubprocessor ==
    /\ q_calls = 0
    /\ \E proc \in Range(Below("P", q_subprocessors)) :
       \E sub \in Processors \ Range(Below("P", q_subprocessors)) :
          q_subprocessors' = [q_subprocessors EXCEPT ![proc] = Append(@, sub)]
    /\ UNCHANGED <<q_buffer, q_last, q_raised, q_calls>>

Texts == {<<"x">>, <<",">>, <<"x", ",">>}

AddBufferCall ==
    /\ q_calls < MaxCalls
    /\ \E txt \in Texts :
          /\ Len(q_buffer["P"]) + Len(txt) <= MaxBuffer
          /\ Returned(Addbuffer("P", q_subprocessors, Before, txt))

AddLineCall ==
    /\ q_calls < MaxCalls
    /\ \E line \in {<<>>, <<"x">>} :
          /\ Len(q_buffer["P"]) + Len(line) + 1 <= MaxBuffer
          /\ Returned(Addline("P", q_subprocessors, Before, line))

TruncateLastCommaCall ==
    /\ q_calls < MaxCalls
    /\ Returned(Truncate_last_comma("P", q_subprocessors, Before))

\* processbuffer on the parent; doprocessbuffer raises in any of the
\* processors.
ProcessBufferCall ==
    /\ q_calls < MaxCalls
    /\ \E ignore_exceptions \in BOOLEAN, failing \in SUBSET Processors :
          Returned(Processbuffer("P", q_subprocessors, Before, ignore_exceptions, failing))

NextProc ==
    /\ \/ AddSubprocessor
       \/ AddBufferCall
       \/ AddLineCall
       \/ TruncateLastCommaCall
       \/ ProcessBufferCall
    /\ UNCHANGED <<compiler, parser, namer, planner, services>>

\* Family "processors": three processors just made.
InitProc ==
    /\ q_subprocessors = [proc \in Processors |-> <<>>]
    /\ q_buffer = [proc \in Processors |-> <<>>]
    /\ q_last = <<>>
    /\ q_raised = FALSE
    /\ q_calls = 0
    /\ CompilerIdle /\ ParserIdle /\ NamerIdle /\ PlannerIdle /\ ServicesIdle

SpecProc == InitProc /\ [][NextProc]_vars

\* C20: every call of addbuffer, addline, truncate_last_comma and
\* processbuffer on the parent is made, with the same argument, on every
\* processor under it in the order of the declarations, and after every call
\* the buffer of every subprocessor equals the buffer of the parent.
C20_FanOut ==
    LET under == Below("P", q_subprocessors)
    IN /\ q_calls > 0 =>
            /\ Len(q_last) = Len(under)
            /\ \A k \in 1..Len(under) :
                  /\ q_last[k][1] = under[k]
                  /\ q_last[k][2] = q_last[1][2]
                  /\ q_last[k][3] = q_last[1][3]
       /\ \A k \in 1..Len(under) : q_buffer[under[k]] = q_buffer["P"]

\* processbuffer on the parent raised; the parent's buffer is empty and a
\* subprocessor, never called, still holds the statement.
C20_StaleSubBuffer ==
    /\ q_raised
    /\ q_last = << <<"P", "processbuffer", FALSE>> >>
    /\ q_buffer["P"] = <<>>
    /\ q_subprocessors["P"] # <<>>
    /\ \A k \in 1..Len(q_subprocessors["P"]) : q_buffer[q_subprocessors["P"][k]] # <<>>

(***************************************************************************)
(* DDL generation (venus.db.dbo.connection, venus.db.yasdl.instance).      *)
(* An instance is a record: schemas (GUID -> physical name of the schema)  *)
(* and tables (GUID -> the realized toplevel fieldset: its owner schema,   *)
(* physical name, realized fields, indexes and check constraints).  A      *)
(* statement is <<kind, schema, table, name>>.  A run is a record: step    *)
(* (the step of the plan being run), log (<<step, statement>> for every    *)
(* statement given to processbuffer), calls (<<step, table>> for every     *)
(* table the step was applied to), proc (the state of the SQL processor),  *)
(* dirty (a processbuffer call left text in the buffer) and raised.        *)
(***************************************************************************)
NoRaise == "no"

\* The SQL processor of a run has no subprocessors.
OneProcessor == [proc \in {"P"} |-> <<>>]

\* The database of a run whose database is followed: the names of its schemas,
\* its tables <<schema, table>> and its columns <<schema, table, column,
\* type, NOT NULL>>.
EmptyDatabase == [schemas |-> {}, tables |-> {}, columns |-> {}]

NewRun ==
    [step |-> "", log |-> <<>>, calls |-> <<>>,
     proc |-> [buffer |-> [proc \in {"P"} |-> <<>>], calls |-> <<>>, raised |-> FALSE],
     dirty |-> FALSE, raised |-> NoRaise, db |-> EmptyDatabase, failed |-> FALSE]

RECURSIVE ForEach(_, _, _)
\* for item in items: Do(run, item), which an exception leaves
ForEach(Do(_, _), run, items) ==
    IF items = <<>> \/ run.raised # NoRaise THEN run
    ELSE ForEach(Do, Do(run, Head(items)), Tail(items))

\* The places of the GUID values and names in their declarations.
Rank == ("S1" :> 1) @@ ("S2" :> 2) @@ ("T1" :> 1) @@ ("T2" :> 2) @@ ("a" :> 1) @@ ("b" :> 2)

InOrder(names) == SetToSeqBy(names, Rank)

\* Iteration over a set of strings: their order is that of their hashes, one
\* way round or the other.
InSetOrder(names) ==
    LET up == InOrder(names)
    IN IF d_reversed THEN [k \in 1..Len(up) |-> up[Len(up) + 1 - k]] ELSE up

\* d_exists when the answers of schema_exists, table_exists and column_exists
\* are those of the database the run has made so far.
Tracked == {"tracked"}

\* schema_exists, table_exists, column_exists of the vendor adapter
schema_exists(run, schemaname) ==
    IF d_exists = Tracked THEN schemaname \in run.db.schemas ELSE "schema" \in d_exists

table_exists(run, schemaname, tablename) ==
    IF d_exists = Tracked THEN <<schemaname, tablename>> \in run.db.tables
    ELSE "table" \in d_exists

column_exists(run, schemaname, tablename, columnname) ==
    IF d_exists = Tracked
    THEN \E col \in run.db.columns :
            col[1] = schemaname /\ col[2] = tablename /\ col[3] = columnname
    ELSE "column" \in d_exists

\* The realized fields of the table of these physical names in the instance.
FieldsAt(instance, schemaname, tablename) ==
    LET found == {t \in DOMAIN instance.tables :
                    /\ instance.schemas[instance.tables[t].owner] = schemaname
                    /\ instance.tables[t].name = tablename}
    IN IF found = {} THEN <<>> ELSE instance.tables[CHOOSE t \in found : TRUE].fields

\* get_typespec of the field of this physical name
TypespecAt(instance, schemaname, tablename, columnname) ==
    LET fields == FieldsAt(instance, schemaname, tablename)
        found == {k \in 1..Len(fields) : fields[k].pname = columnname}
    IN IF found = {} THEN "" ELSE fields[CHOOSE k \in found : TRUE].typespec

\* The database refuses the statement: the object to make is there, the
\* object to alter is not, or a schema to drop without CASCADE has tables.
Refused(db, stmt) ==
    LET kind == stmt[1]
        has_table == <<stmt[2], stmt[3]>> \in db.tables
        has_column == \E col \in db.columns :
                         col[1] = stmt[2] /\ col[2] = stmt[3] /\ col[3] = stmt[4]
    IN CASE kind = "CREATE SCHEMA" -> stmt[2] \in db.schemas
         [] kind = "CREATE TABLE" -> stmt[2] \notin db.schemas \/ has_table
         [] kind = "ADD COLUMN" -> ~has_table \/ has_column
         [] kind \in {"SET NOT NULL", "DROP NOT NULL", "SET DATA TYPE", "DROP COLUMN",
                      "DROP COLUMN CASCADE", "COMMENT ON COLUMN"} -> ~has_column
         [] kind \in {"CREATE INDEX", "ADD FOREIGN KEY", "ADD CHECK", "DROP CONSTRAINT",
                      "COMMENT ON TABLE"} -> ~has_table
         [] kind = "DROP SCHEMA" -> \E tbl \in db.tables : tbl[1] = stmt[2]
         [] OTHER -> FALSE

\* The database after the statement.  The column types of CREATE TABLE, ADD
\* and SET DATA TYPE are in the text of the statement, which create() and
\* upgrade() write from the new instance.
Executed(db, stmt) ==
    LET kind == stmt[1]
        s == stmt[2]
        t == stmt[3]
        c == stmt[4]
        this == {col \in db.columns : col[1] = s /\ col[2] = t /\ col[3] = c}
        fields == FieldsAt(d_new, s, t)
    IN CASE kind = "CREATE SCHEMA" -> [db EXCEPT !.schemas = @ \cup {s}]
         [] kind = "CREATE TABLE" ->
                [db EXCEPT !.tables = @ \cup {<<s, t>>},
                           !.columns = @ \cup {<<s, t, "id", "identifier", TRUE>>}
                                         \cup {<<s, t, fields[k].pname, fields[k].typespec, FALSE>> :
                                                  k \in 1..Len(fields)}]
         [] kind = "ADD COLUMN" ->
                [db EXCEPT !.columns = @ \cup {<<s, t, c, TypespecAt(d_new, s, t, c), FALSE>>}]
         [] kind = "SET NOT NULL" ->
                [db EXCEPT !.columns = (@ \ this) \cup {<<s, t, c, col[4], TRUE>> : col \in this}]
         [] kind = "DROP NOT NULL" ->
                [db EXCEPT !.columns = (@ \ this) \cup {<<s, t, c, col[4], FALSE>> : col \in this}]
         [] kind = "SET DATA TYPE" ->
                [db EXCEPT !.columns = (@ \ this)
                               \cup {<<s, t, c, TypespecAt(d_new, s, t, c), col[5]>> : col \in this}]
         [] kind \in {"DROP COLUMN", "DROP COLUMN CASCADE"} -> [db EXCEPT !.columns = @ \ this]
         [] kind = "DROP TABLE" ->
                [db EXCEPT !.tables = @ \ {<<s, t>>},
                           !.columns = {col \in @ : ~(col[1] = s /\ col[2] = t)}]
         [] kind \in {"DROP SCHEMA", "DROP SCHEMA CASCADE"} ->
                [db EXCEPT !.schemas = @ \ {s},
                           !.tables = {tbl \in @ : tbl[1] # s},
                           !.columns = {col \in @ : col[1] # s}]
         [] OTHER -> db

\* The statement is put into the buffer and processbuffer is called with
\* options["ignore_exceptions"].  A statement fails when its kind is one of
\* the failing ones or, where the database is followed, when the database
\* refuses it; a statement that does not fail changes that database.
Emit(run, stmt) ==
    LET fails == stmt[1] \in d_failing \/ (d_exists = Tracked /\ Refused(run.db, stmt))
        added == Addbuffer("P", OneProcessor, run.proc, <<stmt>>)
        done == Processbuffer("P", OneProcessor, added, d_options.dict["ignore_exceptions"],
                              IF fails THEN {"P"} ELSE {})
    IN IF run.raised # NoRaise THEN run
       ELSE [run EXCEPT !.log = Append(@, <<run.step, stmt>>),
                        !.proc = [done EXCEPT !.calls = <<>>, !.raised = FALSE],
                        !.dirty = @ \/ done.buffer["P"] # <<>>,
                        !.raised = IF done.raised THEN "statement" ELSE NoRaise,
                        !.db = IF d_exists = Tracked /\ ~fails THEN Executed(@, stmt) ELSE @,
                        !.failed = @ \/ fails]

\* options["force"] is evaluated: a KeyError when the key is missing.
EmitForced(run, plain, cascade) ==
    IF run.raised # NoRaise THEN run
    ELSE IF "force" \notin DOMAIN d_options.dict THEN [run EXCEPT !.raised = "KeyError"]
         ELSE IF d_options.dict["force"] THEN Emit(run, cascade) ELSE Emit(run, plain)

\* The step of the plan is applied to the table.
Applied(run, t) ==
    IF run.raised # NoRaise THEN run ELSE [run EXCEPT !.calls = Append(@, <<run.step, t>>)]

Stmt(kind, instance, t, name) ==
    <<kind, instance.schemas[instance.tables[t].owner], instance.tables[t].name, name>>

yasdl_create_schema(run, instance, s) ==
    IF ~schema_exists(run, instance.schemas[s])
    THEN Emit(run, <<"CREATE SCHEMA", instance.schemas[s], "", "">>)
    ELSE run

yasdl_create_table(run, instance, t) == Emit(run, Stmt("CREATE TABLE", instance, t, ""))

yasdl_add_field(run, instance, t, field) ==
    Emit(run, Stmt("ADD COLUMN", instance, t, field.pname))

yasdl_field_drop_not_null(run, instance, t, field) ==
    LET stmt == Stmt("DROP NOT NULL", instance, t, field.pname)
    IN IF column_exists(run, stmt[2], stmt[3], stmt[4]) THEN Emit(run, stmt) ELSE run

yasdl_field_set_not_null(run, instance, t, field) ==
    LET stmt == Stmt("SET NOT NULL", instance, t, field.pname)
    IN IF column_exists(run, stmt[2], stmt[3], stmt[4]) THEN Emit(run, stmt) ELSE run

yasdl_field_change_type(run, instance, t, field) ==
    LET stmt == Stmt("SET DATA TYPE", instance, t, field.pname)
    IN IF column_exists(run, stmt[2], stmt[3], stmt[4]) THEN Emit(run, stmt) ELSE run

yasdl_create_table_indexes(run, instance, t) ==
    LET Index(r, index) == Emit(r, Stmt("CREATE INDEX", instance, t, index))
    IN ForEach(Index, run, instance.tables[t].indexes)

yasdl_create_table_constraints(run, instance, t) ==
    LET Fk(r, field) ==
            IF field.references # "" THEN Emit(r, Stmt("ADD FOREIGN KEY", instance, t, field.pname))
            ELSE r
        Check(r, constraint) == Emit(r, Stmt("ADD CHECK", instance, t, constraint))
    IN ForEach(Check, ForEach(Fk, run, instance.tables[t].fields), instance.tables[t].constraints)

yasdl_create_all_field_constraints(run, instance, t) ==
    LET NotNull(r, field) ==
            IF field.notnull THEN yasdl_field_set_not_null(r, instance, t, field) ELSE r
    IN ForEach(NotNull, run, instance.tables[t].fields)

yasdl_create_table_comments(run, instance, t) ==
    LET Column(r, field) == Emit(r, Stmt("COMMENT ON COLUMN", instance, t, field.pname))
    IN ForEach(Column, Emit(run, Stmt("COMMENT ON TABLE", instance, t, "")),
               instance.tables[t].fields)

yasdl_drop_table(run, instance, t) ==
    LET stmt == Stmt("DROP TABLE", instance, t, "")
    IN IF table_exists(run, stmt[2], stmt[3]) THEN Emit(run, stmt) ELSE run

yasdl_drop_field(run, instance, t, field) ==
    IF column_exists(run, instance.schemas[instance.tables[t].owner], instance.tables[t].name,
                     field.pname)
    THEN EmitForced(run, Stmt("DROP COLUMN", instance, t, field.pname),
                    Stmt("DROP COLUMN CASCADE", instance, t, field.pname))
    ELSE run

yasdl_drop_schema(run, instance, s) ==
    IF schema_exists(run, instance.schemas[s])
    THEN EmitForced(run, <<"DROP SCHEMA", instance.schemas[s], "", "">>,
                    <<"DROP SCHEMA CASCADE", instance.schemas[s], "", "">>)
    ELSE run

yasdl_drop_table_indexes(run, instance, t) ==
    LET Index(r, index) == Emit(r, Stmt("DROP INDEX", instance, t, index))
    IN ForEach(Index, run, instance.tables[t].indexes)

yasdl_drop_table_constraints(run, instance, t) ==
    LET Fk(r, field) ==
            IF field.references # "" THEN Emit(r, Stmt("DROP CONSTRAINT", instance, t, field.pname))
            ELSE r
        Check(r, constraint) == Emit(r, Stmt("DROP CONSTRAINT", instance, t, constraint))
    IN IF table_exists(run, instance.schemas[instance.tables[t].owner], instance.tables[t].name)
       THEN ForEach(Check, ForEach(Fk, run, instance.tables[t].fields),
                    instance.tables[t].constraints)
       ELSE run

yasdl_drop_all_field_constraints(run, instance, t) ==
    LET NotNull(r, field) ==
            IF field.notnull THEN yasdl_field_drop_not_null(r, instance, t, field) ELSE r
    IN ForEach(NotNull, run, instance.tables[t].fields)

\* toplevel_realized_fieldsets(): schema by schema, the tables of the set
\* parsed.toplevel_fieldsets which it owns
toplevel_realized_fieldsets(instance) ==
    LET Of(s) == InSetOrder({t \in DOMAIN instance.tables : instance.tables[t].owner = s})
        scms == InOrder(DOMAIN instance.schemas)
    IN Concat([k \in 1..Len(scms) |-> Of(scms[k])])

\* schemas_with_toplevel_realized_fieldsets(): a set
schemas_with_toplevel_realized_fieldsets(instance) ==
    {instance.tables[t].owner : t \in DOMAIN instance.tables}

\* A step of a plan that calls the connection for every table of the instance.
EveryTable(Do(_, _, _), run, instance) ==
    LET Table(r, t) == Do(Applied(r, t), instance, t)
    IN ForEach(Table, run, toplevel_realized_fieldsets(instance))

create_schemas(run, instance) ==
    LET Schema(r, s) == yasdl_create_schema(r, instance, s)
    IN ForEach(Schema, run, InSetOrder(schemas_with_toplevel_realized_fieldsets(instance)))

create_constraints(run, instance) ==
    LET Both(r, i, t) ==
            yasdl_create_all_field_constraints(yasdl_create_table_constraints(r, i, t), i, t)
    IN EveryTable(Both, run, instance)

drop_constraints(run, instance) ==
    LET Both(r, i, t) ==
            yasdl_drop_all_field_constraints(yasdl_drop_table_constraints(r, i, t), i, t)
    IN EveryTable(Both, run, instance)

drop_schemas(run, instance) ==
    LET Schema(r, s) == yasdl_drop_schema(r, instance, s)
    IN ForEach(Schema, run, InOrder(DOMAIN instance.schemas))

yasdl_create_table_triggers(run, instance, t) == run

yasdl_drop_table_triggers(run, instance, t) == run

\* A variant of CreateSteps with the constraints before the tables.
CreateStepsConstraintsFirst ==
    <<"before_all", "schemas", "constraints", "tables", "data_raw", "indexes", "triggers",
      "views", "comments", "data", "after_all">>

\* The steps of create(), in its order.
CreateSteps ==
    <<"before_all", "schemas", "tables", "data_raw", "constraints", "indexes", "triggers",
      "views", "comments", "data", "after_all">>

CreateStepOf(step, run, instance) ==
    CASE step = "schemas" -> create_schemas(run, instance)
      [] step = "tables" -> EveryTable(yasdl_create_table, run, instance)
      [] step = "constraints" -> create_constraints(run, instance)
      [] step = "indexes" -> EveryTable(yasdl_create_table_indexes, run, instance)
      [] step = "triggers" -> EveryTable(yasdl_create_table_triggers, run, instance)
      [] step = "comments" -> EveryTable(yasdl_create_table_comments, run, instance)
      [] OTHER -> run

\* The steps of drop() when options["force"] is false, in its order.
DropSteps ==
    <<"before_all", "data", "comments", "views", "triggers", "constraints", "indexes",
      "data_raw", "tables", "schemas", "after_all">>

DropStepOf(step, run, instance) ==
    CASE step = "triggers" -> EveryTable(yasdl_drop_table_triggers, run, instance)
      [] step = "constraints" -> drop_constraints(run, instance)
      [] step = "indexes" -> EveryTable(yasdl_drop_table_indexes, run, instance)
      [] step = "tables" -> EveryTable(yasdl_drop_table, run, instance)
      [] step = "schemas" -> drop_schemas(run, instance)
      [] OTHER -> run

\* options = {} when None; options["ignore_exceptions"] gets its default
WithDefault(options) ==
    LET dict == options.dict
    IN [none |-> FALSE,
        dict |-> [k \in DOMAIN dict \cup {"ignore_exceptions"} |->
                     IF k \in DOMAIN dict THEN dict[k] ELSE FALSE]]

\* The plan goes on to its next step, or ends.
Went(run) ==
    /\ d_run' = run
    /\ d_pc' = d_pc + 1
    /\ UNCHANGED <<d_op, d_old, d_new, d_exists, d_failing, d_reversed>>

\* The run of a plan begins on the database as it is.
Began == [NewRun EXCEPT !.db = d_run.db]

\* create(): the options
CreateBegin ==
    /\ d_op = "create" /\ d_pc = 0
    /\ d_options' = WithDefault(d_options)
    /\ Went(Began)
    /\ UNCHANGED d_context

\* create(): one step
CreateStep ==
    /\ d_op = "create" /\ d_pc \in 1..Len(CreateSteps) /\ d_run.raised = NoRaise
    /\ Went(CreateStepOf(CreateSteps[d_pc], [d_run EXCEPT !.step = CreateSteps[d_pc]], d_new))
    /\ UNCHANGED <<d_options, d_context>>

\* The steps of the drop() that runs, by the branch options["force"] selects.
DropPlan == IF d_options.dict["force"] THEN <<"schemas">> ELSE DropSteps

\* drop(): the options and the test of options["force"]
DropBegin ==
    /\ d_op = "drop" /\ d_pc = 0
    /\ d_options' = WithDefault(d_options)
    /\ IF "force" \in DOMAIN d_options.dict
       THEN Went(Began)
       ELSE Went([Began EXCEPT !.raised = "KeyError"])
    /\ UNCHANGED d_context

\* drop(): one step
DropStep ==
    /\ d_op = "drop" /\ d_pc > 0 /\ d_run.raised = NoRaise
    /\ d_pc <= Len(DropPlan)
    /\ Went(DropStepOf(DropPlan[d_pc], [d_run EXCEPT !.step = DropPlan[d_pc]], d_old))
    /\ UNCHANGED <<d_options, d_context>>

\* diff_schemas
diff_schemas(old_instance, new_instance) ==
    LET new_schemas == schemas_with_toplevel_realized_fieldsets(new_instance)
        old_schemas == schemas_with_toplevel_realized_fieldsets(old_instance)
    IN [to_create |-> new_schemas \ old_schemas, to_drop |-> old_schemas \ new_schemas]

\* diff_tables
diff_tables(old_instance, new_instance) ==
    LET new_guids == DOMAIN new_instance.tables
        old_guids == DOMAIN old_instance.tables
    IN [to_create |-> new_guids \ old_guids, to_drop |-> old_guids \ new_guids,
        common_tables |-> old_guids \cap new_guids]

\* The fields of the sequence whose physical name is in the set, in its order.
Among(fields, pnames) == SelectSeq(fields, LAMBDA f : f.pname \in pnames)

FieldNamed(fields, pname) == CHOOSE f \in Range(fields) : f.pname = pname

\* A variant of diff_fields_of that takes every field of the new table for
\* one to create.
diff_fields_of_new(guid, old_table, new_table) ==
    [guid |-> guid,
     to_drop |-> <<>>, to_create |-> new_table.fields,
     to_rename |-> <<>>, to_retype |-> <<>>,
     to_drop_notnull |-> <<>>, to_create_notnull |-> <<>>,
     has_change |-> new_table.fields # <<>>]

\* diff_fields, for one common table
diff_fields_of(guid, old_table, new_table) ==
    LET new_field_pnames == {f.pname : f \in Range(new_table.fields)}
        old_field_pnames == {f.pname : f \in Range(old_table.fields)}
        to_drop == old_field_pnames \ new_field_pnames
        to_create == new_field_pnames \ old_field_pnames
        to_upgrade == InSetOrder(new_field_pnames \cap old_field_pnames)
        Old(n) == FieldNamed(old_table.fields, n)
        New(n) == FieldNamed(new_table.fields, n)
        AsNew(names) == [k \in 1..Len(names) |-> New(names[k])]
        AsOld(names) == [k \in 1..Len(names) |-> Old(names[k])]
        to_retype == AsNew(SelectSeq(to_upgrade, LAMBDA n : Old(n).typespec # New(n).typespec))
        to_drop_notnull ==
            AsOld(SelectSeq(to_upgrade, LAMBDA n : Old(n).notnull /\ ~New(n).notnull))
            \o AsOld(SelectSeq(InSetOrder(to_drop), LAMBDA n : Old(n).notnull))
        to_create_notnull ==
            AsNew(SelectSeq(to_upgrade, LAMBDA n : ~Old(n).notnull /\ New(n).notnull))
            \o AsNew(SelectSeq(InSetOrder(to_create), LAMBDA n : New(n).notnull))
        to_drop_paths == Among(old_table.fields, to_drop)
        to_create_paths == Among(new_table.fields, to_create)
    IN [guid |-> guid,
        to_drop |-> to_drop_paths, to_create |-> to_create_paths,
        to_rename |-> <<>>, to_retype |-> to_retype,
        to_drop_notnull |-> to_drop_notnull, to_create_notnull |-> to_create_notnull,
        has_change |-> \/ to_drop_paths # <<>> \/ to_create_paths # <<>> \/ to_retype # <<>>
                       \/ to_drop_notnull # <<>> \/ to_create_notnull # <<>>]

\* The common tables whose old and new schema differ in their getpath().
MovedTables(old_instance, new_instance) ==
    {t \in DOMAIN old_instance.tables \cap DOMAIN new_instance.tables :
        old_instance.schemas[old_instance.tables[t].owner]
            # new_instance.schemas[new_instance.tables[t].owner]}

\* diff_fields, when it does not raise
diff_fields(old_instance, new_instance) ==
    LET common == InSetOrder(diff_tables(old_instance, new_instance).common_tables)
    IN [k \in 1..Len(common) |->
           diff_fields_of(common[k], old_instance.tables[common[k]], new_instance.tables[common[k]])]

\* calc_upgrade_context
calc_upgrade_context(old_instance, new_instance) ==
    [schema_diff |-> diff_schemas(old_instance, new_instance),
     table_diff |-> diff_tables(old_instance, new_instance),
     field_diffs |-> diff_fields(old_instance, new_instance)]

\* for field_diff in field_diffs: if field_diff.has_change: Do(table)
Changed(Do(_, _, _), run, instance, field_diffs) ==
    LET Diff(r, field_diff) ==
            IF field_diff.has_change THEN Do(Applied(r, field_diff.guid), instance, field_diff.guid)
            ELSE r
    IN ForEach(Diff, run, field_diffs)

\* for guid in guids: Do(table)
Listed(Do(_, _, _), run, instance, guids) ==
    LET Table(r, t) == Do(Applied(r, t), instance, t)
    IN ForEach(Table, run, InSetOrder(guids))

\* for field_diff in field_diffs: for fieldpath in Of(field_diff): Do(table, fieldpath)
FieldsOf(Do(_, _, _, _), Of(_), run, instance, field_diffs) ==
    LET Diff(r, field_diff) ==
            LET Field(r2, field) == Do(Applied(r2, field_diff.guid), instance, field_diff.guid, field)
            IN ForEach(Field, r, Of(field_diff))
    IN ForEach(Diff, run, field_diffs)

upgrade_create_schemas(run, ctx) ==
    LET Schema(r, s) == yasdl_create_schema(r, d_new, s)
    IN ForEach(Schema, run, InSetOrder(ctx.schema_diff.to_create))

upgrade_drop_schemas(run, ctx) ==
    LET Schema(r, s) == yasdl_drop_schema(r, d_old, s)
    IN ForEach(Schema, run, InSetOrder(ctx.schema_diff.to_drop))

upgrade_drop_field_constraints(run, ctx) ==
    LET Of(field_diff) == field_diff.to_drop_notnull
    IN Listed(yasdl_drop_all_field_constraints,
              FieldsOf(yasdl_field_drop_not_null, Of, run, d_old, ctx.field_diffs),
              d_old, ctx.table_diff.to_drop)

upgrade_drop_table_constraints(run, ctx) ==
    Listed(yasdl_drop_table_constraints,
           Changed(yasdl_drop_table_constraints, run, d_old, ctx.field_diffs),
           d_old, ctx.table_diff.to_drop)

upgrade_drop_indexes(run, ctx) ==
    Changed(yasdl_drop_table_indexes, run, d_old, ctx.field_diffs)

upgrade_drop_triggers(run, ctx) ==
    Listed(yasdl_drop_table_triggers,
           Changed(yasdl_drop_table_triggers, run, d_old, ctx.field_diffs),
           d_old, ctx.table_diff.to_drop)

upgrade_create_fields(run, ctx) ==
    LET Of(field_diff) == field_diff.to_create
    IN FieldsOf(yasdl_add_field, Of, run, d_new, ctx.field_diffs)

upgrade_change_field_types(run, ctx) ==
    LET Of(field_diff) == field_diff.to_retype
    IN FieldsOf(yasdl_field_change_type, Of, run, d_new, ctx.field_diffs)

upgrade_drop_fields(run, ctx) ==
    LET Of(field_diff) == field_diff.to_drop
    IN FieldsOf(yasdl_drop_field, Of, run, d_old, ctx.field_diffs)

upgrade_create_table_constraints(run, ctx) ==
    Listed(yasdl_create_table_constraints,
           Changed(yasdl_create_table_constraints, run, d_new, ctx.field_diffs),
           d_new, ctx.table_diff.to_create)

upgrade_create_field_constraints(run, ctx) ==
    LET Of(field_diff) == field_diff.to_create_notnull
    IN Listed(yasdl_create_all_field_constraints,
              FieldsOf(yasdl_field_set_not_null, Of, run, d_new, ctx.field_diffs),
              d_new, ctx.table_diff.to_create)

upgrade_create_indexes(run, ctx) ==
    Listed(yasdl_create_table_indexes,
           Changed(yasdl_create_table_indexes, run, d_new, ctx.field_diffs),
           d_new, ctx.table_diff.to_create)

upgrade_create_triggers(run, ctx) ==
    Listed(yasdl_create_table_triggers,
           Changed(yasdl_create_table_triggers, run, d_new, ctx.field_diffs),
           d_new, ctx.table_diff.to_create)

upgrade_create_comments(run, ctx) ==
    Listed(yasdl_create_table_comments, run, d_new, ctx.table_diff.to_create)

\* A variant of UpgradeSteps that drops the obsolete fields before it drops
\* the constraints and indexes.
UpgradeStepsFieldsFirst ==
    <<"before_all", "create_schemas", "create_tables", "data_raw", "drop_fields",
      "drop_field_constraints", "drop_table_constraints", "drop_indexes", "drop_triggers",
      "drop_views", "create_fields", "change_field_types", "create_table_constraints",
      "create_field_constraints", "create_indexes", "create_triggers", "create_views",
      "create_comments", "data", "drop_tables", "drop_schemas">>

\* The steps of upgrade() after calc_upgrade_context, in its order.
UpgradeSteps ==
    <<"before_all", "create_schemas", "create_tables", "data_raw", "drop_field_constraints",
      "drop_table_constraints", "drop_indexes", "drop_triggers", "drop_views", "create_fields",
      "change_field_types", "drop_fields", "create_table_constraints",
      "create_field_constraints", "create_indexes", "create_triggers", "create_views",
      "create_comments", "data", "drop_tables", "drop_schemas">>

UpgradeStepOf(step, run, ctx) ==
    CASE step = "create_schemas" -> upgrade_create_schemas(run, ctx)
      [] step = "create_tables" -> Listed(yasdl_create_table, run, d_new, ctx.table_diff.to_create)
      [] step = "drop_field_constraints" -> upgrade_drop_field_constraints(run, ctx)
      [] step = "drop_table_constraints" -> upgrade_drop_table_constraints(run, ctx)
      [] step = "drop_indexes" -> upgrade_drop_indexes(run, ctx)
      [] step = "drop_triggers" -> upgrade_drop_triggers(run, ctx)
      [] step = "create_fields" -> upgrade_create_fields(run, ctx)
      [] step = "change_field_types" -> upgrade_change_field_types(run, ctx)
      [] step = "drop_fields" -> upgrade_drop_fields(run, ctx)
      [] step = "create_table_constraints" -> upgrade_create_table_constraints(run, ctx)
      [] step = "create_field_constraints" -> upgrade_create_field_constraints(run, ctx)
      [] step = "create_indexes" -> upgrade_create_indexes(run, ctx)
      [] step = "create_triggers" -> upgrade_create_triggers(run, ctx)
      [] step = "create_comments" -> upgrade_create_comments(run, ctx)
      [] step = "drop_tables" -> Listed(yasdl_drop_table, run, d_old, ctx.table_diff.to_drop)
      [] step = "drop_schemas" -> upgrade_drop_schemas(run, ctx)
      [] OTHER -> run

\* upgrade(): the options and calc_upgrade_context, which raises when a
\* common table has moved to a schema of another path
UpgradeBegin ==
    /\ d_op = "upgrade" /\ d_pc = 0
    /\ d_options' = WithDefault(d_options)
    /\ IF MovedTables(d_old, d_new) # {}
       THEN /\ d_context' = <<>>
            /\ Went([Began EXCEPT !.raised = "Exception"])
       ELSE /\ d_context' = calc_upgrade_context(d_old, d_new)
            /\ Went(Began)

\* upgrade(): one step
UpgradeStep ==
    /\ d_op = "upgrade" /\ d_pc \in 1..Len(UpgradeSteps) /\ d_run.raised = NoRaise
    /\ Went(UpgradeStepOf(UpgradeSteps[d_pc], [d_run EXCEPT !.step = UpgradeSteps[d_pc]], d_context))
    /\ UNCHANGED <<d_options, d_context>>

NextPlan ==
    /\ \/ CreateBegin
       \/ CreateStep
       \/ DropBegin
       \/ DropStep
       \/ UpgradeBegin
       \/ UpgradeStep
    /\ UNCHANGED <<compiler, parser, namer, processor, services>>

Field(pname, typespec, notnull, references) ==
    [pname |-> pname, typespec |-> typespec, notnull |-> notnull, references |-> references]

\* Three versions of a table: one NOT NULL field and an index; a second field
\* that references T2, and a check constraint; the first field alone, of
\* another type, nullable and without the index.
TableV1(owner, name) ==
    [owner |-> owner, name |-> name, fields |-> <<Field("a", "integer", TRUE, "")>>,
     indexes |-> <<"i">>, constraints |-> <<>>]

TableV2(owner, name) ==
    [owner |-> owner, name |-> name,
     fields |-> <<Field("a", "integer", TRUE, ""), Field("b", "text", FALSE, "T2")>>,
     indexes |-> <<"i">>, constraints |-> <<"c">>]

TableV3(owner, name) ==
    [owner |-> owner, name |-> name, fields |-> <<Field("a", "text", FALSE, "")>>,
     indexes |-> <<>>, constraints |-> <<>>]

NoInstance == [schemas |-> <<>>, tables |-> <<>>]

\* Compiled instances: no table; T1; T1 changed and T2; T1 changed; T1 in a
\* schema of another GUID and path; T1 in a schema of another GUID and the
\* same path; T1 and T2.
Instances ==
    { [schemas |-> ("S1" :> "p"), tables |-> <<>>],
      [schemas |-> ("S1" :> "p"), tables |-> ("T1" :> TableV1("S1", "t1"))],
      [schemas |-> ("S1" :> "p"),
       tables |-> ("T1" :> TableV2("S1", "t1")) @@ ("T2" :> TableV1("S1", "t2"))],
      [schemas |-> ("S1" :> "p"), tables |-> ("T1" :> TableV3("S1", "t1"))],
      [schemas |-> ("S1" :> "p") @@ ("S2" :> "q"),
       tables |-> ("T1" :> TableV1("S2", "t1")) @@ ("T2" :> TableV1("S1", "t2"))],
      [schemas |-> ("S2" :> "p"), tables |-> ("T1" :> TableV1("S2", "t1"))],
      [schemas |-> ("S1" :> "p"),
       tables |-> ("T1" :> TableV1("S1", "t1")) @@ ("T2" :> TableV1("S1", "t2"))] }

\* The options argument: None, or a dict with any of the two keys.
OptionChoices ==
    {[none |-> TRUE, dict |-> <<>>]}
    \cup {[none |-> FALSE, dict |-> f] :
            f \in UNION {[D -> BOOLEAN] : D \in SUBSET {"force", "ignore_exceptions"}}}

ExistChoices == {{}, {"table", "column"}, {"schema", "table", "column"}}

FailChoices ==
    { {},
      {"CREATE TABLE", "DROP TABLE", "ADD COLUMN", "DROP SCHEMA CASCADE"},
      {"CREATE INDEX", "DROP INDEX", "DROP CONSTRAINT", "COMMENT ON COLUMN"} }

\* Family "plans": create(new), drop(old) and upgrade(old, new) for these
\* instances, options, databases and failing statements.
InitPlan ==
    /\ d_op \in {"create", "drop", "upgrade"}
    /\ d_old \in IF d_op = "create" THEN {NoInstance} ELSE Instances
    /\ d_new \in IF d_op = "drop" THEN {NoInstance} ELSE Instances
    /\ d_options \in OptionChoices
    /\ d_exists \in ExistChoices
    /\ d_failing \in FailChoices
    /\ d_reversed \in BOOLEAN
    /\ d_pc = 0
    /\ d_context = <<>>
    /\ d_run = NewRun
    /\ CompilerIdle /\ ParserIdle /\ NamerIdle /\ ProcessorIdle /\ ServicesIdle

SpecPlan == InitPlan /\ [][NextPlan]_vars

\* The plan has run to its end, or was left by an exception.
PlanOver ==
    /\ d_pc > 0
    /\ \/ d_run.raised # NoRaise
       \/ d_op = "create" /\ d_pc > Len(CreateSteps)
       \/ d_op = "drop" /\ d_pc > Len(DropPlan)
       \/ d_op = "upgrade" /\ d_pc > Len(UpgradeSteps)

\* The kinds of the statements processed so far.
KindsDone == {d_run.log[k][2][1] : k \in 1..Len(d_run.log)}

\* Every statement of the log is of a kind of the function, and the numbers
\* the function gives to their kinds never decrease.
InOrderOf(number) ==
    /\ KindsDone \subseteq DOMAIN number
    /\ \A i, j \in 1..Len(d_run.log) :
          i < j => number[d_run.log[i][2][1]] <= number[d_run.log[j][2][1]]

\* The step of the upgrade plan that a statement belongs to by its kind: 1
\* create new schemas, 2 create new tables, 3 drop field NOT NULL constraints,
\* 4 drop table-level constraints, 5 drop indexes, 6 drop triggers, 7 add new
\* fields, 8 change field types, 9 drop obsolete fields, 10 create table-level
\* constraints, 11 create field NOT NULL constraints, 12 create indexes,
\* 13 create triggers, 14 create comments, 15 drop obsolete tables, 16 drop
\* obsolete schemas.
UpgradeStepNumber ==
    ("CREATE SCHEMA" :> 1) @@ ("CREATE TABLE" :> 2) @@ ("DROP NOT NULL" :> 3)
    @@ ("DROP CONSTRAINT" :> 4) @@ ("DROP INDEX" :> 5) @@ ("ADD COLUMN" :> 7)
    @@ ("SET DATA TYPE" :> 8) @@ ("DROP COLUMN" :> 9) @@ ("DROP COLUMN CASCADE" :> 9)
    @@ ("ADD FOREIGN KEY" :> 10) @@ ("ADD CHECK" :> 10) @@ ("SET NOT NULL" :> 11)
    @@ ("CREATE INDEX" :> 12) @@ ("COMMENT ON TABLE" :> 14) @@ ("COMMENT ON COLUMN" :> 14)
    @@ ("DROP TABLE" :> 15) @@ ("DROP SCHEMA" :> 16) @@ ("DROP SCHEMA CASCADE" :> 16)

\* C13: upgrade emits its statements in the order of the plan: a statement of
\* an earlier step (create schemas, create tables, drop NOT NULL, drop
\* table-level constraints, drop indexes, drop triggers, add fields, change
\* types, drop fields, create table-level constraints, create NOT NULL,
\* create indexes, create triggers, create comments, drop tables, drop
\* schemas) precedes every statement of a later step.
C13_UpgradeInPlanOrder ==
    d_op = "upgrade" /\ d_pc > 0 => InOrderOf(UpgradeStepNumber)

\* An upgrade has run to its end and has dropped constraints, an index, a
\* field and a table, and created an index again.
C13_Witness ==
    /\ d_op = "upgrade" /\ PlanOver /\ d_run.raised = NoRaise
    /\ {"DROP NOT NULL", "DROP CONSTRAINT", "DROP INDEX", "DROP COLUMN", "CREATE INDEX",
        "DROP TABLE"} \subseteq KindsDone

\* The drop-inner and create-inner steps of upgrade() that call the
\* connection, table by table and field by field.
DropInner == {"drop_table_constraints", "drop_indexes", "drop_triggers"}
CreateInner == {"create_table_constraints", "create_indexes", "create_triggers", "create_comments"}

\* The tables a step of the plan was applied to.
AppliedTo(step) == {d_run.calls[k][2] : k \in {j \in 1..Len(d_run.calls) : d_run.calls[j][1] = step}}

\* The common tables of the upgrade with has_change, and those of a list.
HasChange == {d_context.field_diffs[k].guid :
                 k \in {j \in 1..Len(d_context.field_diffs) : d_context.field_diffs[j].has_change}}

With(list) == {d_context.field_diffs[k].guid :
                 k \in {j \in 1..Len(d_context.field_diffs) : d_context.field_diffs[j][list] # <<>>}}

\* C14: in an upgrade every drop-inner step is applied to exactly the tables
\* with has_change and the tables of to_drop, and every create-inner step to
\* exactly the tables with has_change and the tables of to_create (the NOT
\* NULL steps, which work field by field, to those of them with such a
\* field); a common table without has_change receives no statement.
C14_InnerStepsCoverTables ==
    d_op = "upgrade" /\ PlanOver /\ d_run.raised = NoRaise =>
        LET dropped == d_context.table_diff.to_drop
            created == d_context.table_diff.to_create
        IN /\ \A step \in DropInner : AppliedTo(step) = HasChange \cup dropped
           /\ \A step \in CreateInner : AppliedTo(step) = HasChange \cup created
           /\ With("to_drop_notnull") \cup dropped \subseteq AppliedTo("drop_field_constraints")
           /\ AppliedTo("drop_field_constraints") \subseteq HasChange \cup dropped
           /\ With("to_create_notnull") \cup created \subseteq AppliedTo("create_field_constraints")
           /\ AppliedTo("create_field_constraints") \subseteq HasChange \cup created
           /\ \A k \in 1..Len(d_run.calls) :
                 d_run.calls[k][2] \in HasChange \cup dropped \cup created

\* An upgrade has run to its end; a field was added to a common table, whose
\* constraints and indexes were created again, but the step of the comments
\* was not applied to it.
C14_ChangedTableWithoutComments ==
    /\ d_op = "upgrade" /\ PlanOver /\ d_run.raised = NoRaise
    /\ \E t \in With("to_create") :
          /\ t \in AppliedTo("create_fields")
          /\ t \in AppliedTo("create_table_constraints")
          /\ t \in AppliedTo("create_indexes")
          /\ t \notin AppliedTo("create_comments")
          /\ \A k \in 1..Len(d_run.log) : d_run.log[k][1] # "create_comments"

\* An upgrade has run to its end and has dropped a table with an index, to
\* which the step that drops the indexes was not applied.
C14_DroppedTableKeepsIndexes ==
    /\ d_op = "upgrade" /\ PlanOver /\ d_run.raised = NoRaise
    /\ \E t \in d_context.table_diff.to_drop :
          /\ d_old.tables[t].indexes # <<>>
          /\ t \in AppliedTo("drop_table_constraints")
          /\ t \in AppliedTo("drop_tables")
          /\ t \notin AppliedTo("drop_indexes")

\* C15: the diff of an instance with itself has nothing to create or to drop,
\* for schemas and for tables, and for every common table empty lists and no
\* has_change; upgrade(A, A) emits no statement.
C15_SelfDiffEmpty ==
    d_op = "upgrade" /\ d_pc > 0 /\ d_old = d_new =>
        /\ d_run.raised = NoRaise
        /\ d_context.schema_diff.to_create = {} /\ d_context.schema_diff.to_drop = {}
        /\ d_context.table_diff.to_create = {} /\ d_context.table_diff.to_drop = {}
        /\ d_context.table_diff.common_tables = DOMAIN d_old.tables
        /\ Len(d_context.field_diffs) = Cardinality(DOMAIN d_old.tables)
        /\ \A k \in 1..Len(d_context.field_diffs) :
              LET field_diff == d_context.field_diffs[k]
              IN /\ field_diff.to_drop = <<>> /\ field_diff.to_create = <<>>
                 /\ field_diff.to_rename = <<>> /\ field_diff.to_retype = <<>>
                 /\ field_diff.to_drop_notnull = <<>> /\ field_diff.to_create_notnull = <<>>
                 /\ ~field_diff.has_change
        /\ d_run.log = <<>>
        /\ d_run.calls = <<>>

\* The upgrade of an instance of two tables, with fields, a reference, an
\* index and a check constraint, to itself has run to its end, in a database
\* where everything exists.
C15_Witness ==
    /\ d_op = "upgrade" /\ PlanOver /\ d_old = d_new
    /\ d_pc = Len(UpgradeSteps) + 1
    /\ Cardinality(DOMAIN d_old.tables) = 2
    /\ \E t \in DOMAIN d_old.tables : d_old.tables[t].constraints # <<>>
    /\ d_exists = {"schema", "table", "column"}

\* The common tables of the upgrade whose owner schema is not the same, the
\* schemas being the same when their GUID values are.
OwnerDiffers ==
    {t \in DOMAIN d_old.tables \cap DOMAIN d_new.tables :
        d_old.tables[t].owner # d_new.tables[t].owner}

\* C16: when a table of both instances has another owner schema in the new
\* instance, upgrade raises while it computes the diff, before any statement
\* is given to the SQL processor.
C16_MovedTableRaises ==
    d_op = "upgrade" /\ d_pc > 0 /\ OwnerDiffers # {} =>
        d_run.raised = "Exception" /\ d_run.log = <<>>

\* An upgrade has run to its end without an exception for a table whose owner
\* schema has another GUID in the new instance: the plan has dropped the
\* schema of the physical name under which the table is kept.
C16_MovedTableUpgraded ==
    /\ d_op = "upgrade" /\ PlanOver /\ d_run.raised = NoRaise
    /\ \E t \in OwnerDiffers :
          /\ d_old.schemas[d_old.tables[t].owner] = d_new.schemas[d_new.tables[t].owner]
          /\ \E k \in 1..Len(d_run.log) :
                d_run.log[k][2] = <<"DROP SCHEMA CASCADE", d_new.schemas[d_new.tables[t].owner], "", "">>

\* The step of create() that a statement belongs to by its kind: 2 schemas,
\* 3 tables, 5 constraints, 6 indexes, 9 comments.
CreateStepNumber ==
    ("CREATE SCHEMA" :> 2) @@ ("CREATE TABLE" :> 3) @@ ("ADD FOREIGN KEY" :> 5)
    @@ ("ADD CHECK" :> 5) @@ ("SET NOT NULL" :> 5) @@ ("CREATE INDEX" :> 6)
    @@ ("COMMENT ON TABLE" :> 9) @@ ("COMMENT ON COLUMN" :> 9)

\* C17: create emits its statements in the order schemas, tables,
\* constraints (foreign keys, checks and NOT NULL), indexes, comments, every
\* statement of an earlier step before any statement of a later one; so every
\* CREATE TABLE precedes every ADD CONSTRAINT ... FOREIGN KEY.
C17_CreateInOrder ==
    d_op = "create" /\ d_pc > 0 =>
        /\ InOrderOf(CreateStepNumber)
        /\ \A i, j \in 1..Len(d_run.log) :
              d_run.log[i][2][1] = "ADD FOREIGN KEY" /\ d_run.log[j][2][1] = "CREATE TABLE" => j < i
        /\ \A k \in 1..Len(d_run.log) :
              \E n \in 1..Len(CreateSteps) :
                 CreateSteps[n] = d_run.log[k][1] /\ n = CreateStepNumber[d_run.log[k][2][1]]

\* A create has run to its end: two tables, of which the one created first
\* references the other, a foreign key, NOT NULL constraints, indexes and
\* comments.
C17_Witness ==
    /\ d_op = "create" /\ PlanOver /\ d_run.raised = NoRaise
    /\ {"CREATE SCHEMA", "CREATE TABLE", "ADD FOREIGN KEY", "ADD CHECK", "SET NOT NULL",
        "CREATE INDEX", "COMMENT ON COLUMN"} \subseteq KindsDone
    /\ \E i, j \in 1..Len(d_run.log) :
          /\ i < j
          /\ d_run.log[i][2][1] = "CREATE TABLE" /\ d_run.log[i][2][3] = "t1"
          /\ d_run.log[j][2][1] = "CREATE TABLE" /\ d_run.log[j][2][3] = "t2"

\* C18: a drop whose options are omitted or have no 'force' runs as a drop
\* that is not forced: it raises nothing of its own and goes through the
\* detailed steps; with force set it runs the step of the schemas only,
\* which drops them with CASCADE.
C18_DropWithoutForce ==
    d_op = "drop" /\ d_pc > 0 =>
        /\ "force" \notin DOMAIN d_options.dict =>
              /\ d_run.raised # "KeyError"
              /\ d_run.step \in Range(DropSteps) \cup {""}
              /\ "DROP SCHEMA CASCADE" \notin KindsDone
        /\ "force" \in DOMAIN d_options.dict /\ d_options.dict["force"] =>
              /\ d_run.step \in {"", "schemas"}
              /\ KindsDone \subseteq {"DROP SCHEMA CASCADE"}

\* drop() was called for an instance with tables, in a database where they
\* exist, with options that have no 'force': it has raised KeyError before
\* its first step.
C18_KeyError ==
    /\ d_op = "drop" /\ d_pc = 1
    /\ "force" \notin DOMAIN d_options.dict
    /\ d_exists = {"schema", "table", "column"}
    /\ DOMAIN d_old.tables # {}
    /\ d_run.raised = "KeyError" /\ d_run.log = <<>>

\* C19: in create, drop and upgrade, when ignore_exceptions is false the
\* first statement whose execution fails raises and no later statement is
\* processed; when it is true the plan runs to its end, every statement
\* attempted, and nothing is raised; the buffer of the processor is empty
\* after every processbuffer call.
C19_FailureHandling ==
    d_pc > 0 /\ d_run.raised # "Exception" =>
        LET failed == {k \in 1..Len(d_run.log) : d_run.log[k][2][1] \in d_failing}
        IN /\ ~d_options.dict["ignore_exceptions"] =>
                 /\ failed \subseteq {Len(d_run.log)}
                 /\ failed # {} <=> d_run.raised = "statement"
           /\ d_options.dict["ignore_exceptions"] => d_run.raised = NoRaise
           /\ ~d_run.dirty
           /\ d_run.proc.buffer["P"] = <<>>

\* An upgrade with ignore_exceptions true and no 'force' has processed
\* statements, one of which failed, and was then left by a KeyError at the
\* step that drops the fields.
C19_PlanLeftByKeyError ==
    /\ d_op = "upgrade" /\ d_pc > 0 /\ d_options.dict["ignore_exceptions"]
    /\ d_run.raised = "KeyError"
    /\ d_run.step = "drop_fields"
    /\ \E k \in 1..Len(d_run.log) : d_run.log[k][2][1] \in d_failing

\* With ignore_exceptions false a statement has failed after others were
\* processed, and the plan was left.
C19_FirstFailureRaises ==
    /\ d_pc > 0 /\ ~d_options.dict["ignore_exceptions"]
    /\ d_run.raised = "statement"
    /\ Len(d_run.log) > 2
    /\ d_pc <= 8
(***************************************************************************)
(* Connection (venus.db.dbo.connection): transaction levels and the stack  *)
(* of cursors.  The operators take and return the state of one call: the   *)
(* connections, the database behind the driver, the driver hooks and       *)
(* cursor events of the call, and what the call raised.                    *)
(***************************************************************************)
MaxLevel == 3

MaxConnCalls == 6

\* The level argument None, which is no level.
None == -1

\* Connection.__init__: transactionlevel 0, no cursors.
NewConnection == [transactionlevel |-> 0, cursors |-> <<>>]

\* The database of a connection just opened: nothing pending, no savepoint.
NoFrames == <<[name |-> 0, rows |-> {}]>>

DriverHooks == {"dostarttransaction", "docommittransaction", "dorollbacktransaction",
                "domakesavepoint", "docommitsavepoint", "dorollbacksavepoint"}

\* The state a call starts from.
CallState(conns, driver) == [conns |-> conns, driver |-> driver, log |-> <<>>, raised |-> NoRaise]

\* What the database does with the statement of a driver hook: COMMIT and
\* ROLLBACK end the transaction, SAVEPOINT sp_n opens a savepoint, RELEASE
\* sp_n and ROLLBACK TO sp_n work on the last savepoint of that name and
\* fail when there is none.  The frames are the transaction and its open
\* savepoints with the rows written under each.
HookStatement(frames, committed, hook, level) ==
    LET named == {i \in 1..Len(frames) : frames[i].name = level /\ i > 1}
        at == CHOOSE i \in named : \A j \in named : j <= i
        rows(from) == UNION {frames[j].rows : j \in from..Len(frames)}
    IN CASE hook = "dostarttransaction" ->
              [ok |-> TRUE, frames |-> frames, committed |-> committed]
         [] hook = "docommittransaction" ->
              [ok |-> TRUE, frames |-> NoFrames, committed |-> committed \cup rows(1)]
         [] hook = "dorollbacktransaction" ->
              [ok |-> TRUE, frames |-> NoFrames, committed |-> committed]
         [] hook = "domakesavepoint" ->
              [ok |-> TRUE, frames |-> Append(frames, [name |-> level, rows |-> {}]),
               committed |-> committed]
         [] hook = "docommitsavepoint" ->
              IF named = {} THEN [ok |-> FALSE, frames |-> frames, committed |-> committed]
              ELSE [ok |-> TRUE,
                    frames |-> [SubSeq(frames, 1, at - 1) EXCEPT ![at - 1].rows = @ \cup rows(at)],
                    committed |-> committed]
         [] hook = "dorollbacksavepoint" ->
              IF named = {} THEN [ok |-> FALSE, frames |-> frames, committed |-> committed]
              ELSE [ok |-> TRUE,
                    frames |-> [SubSeq(frames, 1, at) EXCEPT ![at].rows = {}],
                    committed |-> committed]

\* A driver hook is called: it raises when the driver fails on it, and
\* otherwise its statement has taken effect.
Hook(st, c, hook, level) ==
    LET done == HookStatement(st.driver.frames[c], st.driver.committed, hook, level)
        ok == hook \notin t_failing /\ done.ok
    IN IF ok
       THEN [st EXCEPT !.log = Append(@, <<c, hook, level, TRUE>>),
                       !.driver.frames[c] = done.frames,
                       !.driver.committed = done.committed]
       ELSE [st EXCEPT !.log = Append(@, <<c, hook, level, FALSE>>),
                       !.raised = "Error"]

\* The cursors closed by _closecurs(level), in the order they are closed:
\* the lists are popped from the top of the stack while len(cursors) >= level.
RECURSIVE ClosedFrom(_, _, _)
ClosedFrom(c, cursors, level) ==
    IF Len(cursors) < level \/ cursors = <<>> THEN <<>>
    ELSE LET top == cursors[Len(cursors)]
         IN [k \in 1..Len(top) |-> <<c, "close", top[k], TRUE>>]
            \o ClosedFrom(c, SubSeq(cursors, 1, Len(cursors) - 1), level)

\* Connection._closecurs
closecurs(st, c, level) ==
    LET conn == st.conns[c]
    IN IF Len(conn.cursors) # conn.transactionlevel
       THEN [st EXCEPT !.raised = "AssertionError"]
       ELSE [st EXCEPT !.log = @ \o ClosedFrom(c, conn.cursors, level),
                       !.conns[c].cursors =
                           IF Len(@) < level THEN @ ELSE SubSeq(@, 1, level - 1)]

\* Connection.starttransaction, from the append of the cursor list onwards.
OpenCursors(st, c) ==
    LET opened == [st EXCEPT !.conns[c].cursors = Append(@, <<>>)]
    IN IF Len(opened.conns[c].cursors) # opened.conns[c].transactionlevel
       THEN [opened EXCEPT !.raised = "AssertionError"]
       ELSE opened

\* Connection.starttransaction
starttransaction(st, c) ==
    LET conn == st.conns[c]
    IN IF conn.transactionlevel = 0
       THEN LET started == Hook(st, c, "dostarttransaction", 0)
            IN IF started.raised # NoRaise THEN started
               ELSE OpenCursors([started EXCEPT !.conns[c].transactionlevel = 1], c)
       ELSE LET raised == [st EXCEPT !.conns[c].transactionlevel = @ + 1]
                saved == Hook(raised, c, "domakesavepoint", conn.transactionlevel + 1)
            IN IF saved.raised # NoRaise THEN saved ELSE OpenCursors(saved, c)

\* The same with the statement issued before the cursors are closed.
EndTransactionStatementFirst(st, c, level, main_hook, savepoint_hook) ==
    LET conn == st.conns[c]
        lv == IF level = None THEN conn.transactionlevel ELSE level
    IN IF lv < 1 \/ lv > conn.transactionlevel
       THEN [st EXCEPT !.raised = "DboTransactionError"]
       ELSE LET ended == IF lv = 1 THEN Hook(st, c, main_hook, 1)
                         ELSE Hook(st, c, savepoint_hook, lv)
                closed == closecurs(ended, c, lv)
            IN IF ended.raised # NoRaise THEN ended
               ELSE IF closed.raised # NoRaise THEN closed
               ELSE [closed EXCEPT !.conns[c].transactionlevel = lv - 1]

\* The same check with the upper bound of the level left out.
EndTransactionUnchecked(st, c, level, main_hook, savepoint_hook) ==
    LET conn == st.conns[c]
        lv == IF level = None THEN conn.transactionlevel ELSE level
    IN IF lv < 1
       THEN [st EXCEPT !.raised = "DboTransactionError"]
       ELSE LET closed == closecurs(st, c, lv)
                ended == IF lv = 1 THEN Hook(closed, c, main_hook, 1)
                         ELSE Hook(closed, c, savepoint_hook, lv)
            IN IF closed.raised # NoRaise THEN closed
               ELSE IF ended.raised # NoRaise THEN ended
               ELSE [ended EXCEPT !.conns[c].transactionlevel = lv - 1]

\* The common body of committransaction and rollbacktransaction, which
\* differ in their two driver hooks.
EndTransaction(st, c, level, main_hook, savepoint_hook) ==
    LET conn == st.conns[c]
        lv == IF level = None THEN conn.transactionlevel ELSE level
    IN IF lv < 1 \/ lv > conn.transactionlevel
       THEN [st EXCEPT !.raised = "DboTransactionError"]
       ELSE LET closed == closecurs(st, c, lv)
                ended == IF lv = 1 THEN Hook(closed, c, main_hook, 1)
                         ELSE Hook(closed, c, savepoint_hook, lv)
            IN IF closed.raised # NoRaise THEN closed
               ELSE IF ended.raised # NoRaise THEN ended
               ELSE [ended EXCEPT !.conns[c].transactionlevel = lv - 1]

\* Connection.committransaction
committransaction(st, c, level) ==
    EndTransaction(st, c, level, "docommittransaction", "docommitsavepoint")

\* rollbacktransaction when a savepoint level is ended by rolling back the
\* whole transaction.
rollbacktransactionWhole(st, c, level) ==
    EndTransaction(st, c, level, "dorollbacktransaction", "dorollbacktransaction")

\* Connection.rollbacktransaction
rollbacktransaction(st, c, level) ==
    EndTransaction(st, c, level, "dorollbacktransaction", "dorollbacksavepoint")

\* Connection.getcursorfor: the new cursor cur is registered at the current
\* transaction level.
getcursorfor(st, c, cur) ==
    LET conn == st.conns[c]
    IN IF conn.transactionlevel < 1
       THEN [st EXCEPT !.raised = "DboTransactionError"]
       ELSE IF conn.transactionlevel > Len(conn.cursors)
       THEN [st EXCEPT !.log = Append(@, <<c, "cursor", cur, TRUE>>), !.raised = "IndexError"]
       ELSE [st EXCEPT !.log = Append(@, <<c, "cursor", cur, TRUE>>),
                       !.conns[c].cursors[conn.transactionlevel] = Append(@, cur)]

\* Connection.execsql of a statement that writes a row.
execsql(st, c, row) ==
    [st EXCEPT !.log = Append(@, <<c, "execsql", row, TRUE>>),
               !.driver.frames[c] = [@ EXCEPT ![Len(@)].rows = @ \cup {row}]]

\* A call on the connection "c1" has been made.
Called1(op, level, st) ==
    /\ t_last' = [op |-> op, level |-> level, before |-> t_conns["c1"], raised |-> st.raised]
    /\ t_conns' = st.conns
    /\ t_driver' = st.driver
    /\ t_log' = st.log
    /\ t_calls' = t_calls + 1
    /\ UNCHANGED t_failing

StartTransaction ==
    /\ t_calls < MaxConnCalls
    /\ t_conns["c1"].transactionlevel < MaxLevel
    /\ Called1("starttransaction", None, starttransaction(CallState(t_conns, t_driver), "c1"))

GetCursorFor ==
    /\ t_calls < MaxConnCalls
    /\ Called1("getcursorfor", None, getcursorfor(CallState(t_conns, t_driver), "c1", t_calls + 1))

CommitTransaction ==
    /\ t_calls < MaxConnCalls
    /\ \E level \in {None} \cup (0..(MaxLevel + 1)) :
          Called1("committransaction", level,
                  committransaction(CallState(t_conns, t_driver), "c1", level))

RollbackTransaction ==
    /\ t_calls < MaxConnCalls
    /\ \E level \in {None} \cup (0..(MaxLevel + 1)) :
          Called1("rollbacktransaction", level,
                  rollbacktransaction(CallState(t_conns, t_driver), "c1", level))

NextTrans ==
    /\ \/ StartTransaction
       \/ GetCursorFor
       \/ CommitTransaction
       \/ RollbackTransaction
    /\ UNCHANGED <<compiler, parser, namer, processor, planner, scoping, pooling, observing>>

\* Family "transactions": one connection just opened; the driver fails on
\* none or on one of its hooks.
InitTrans ==
    /\ t_conns = ("c1" :> NewConnection)
    /\ t_driver = [committed |-> {}, frames |-> ("c1" :> NoFrames)]
    /\ t_log = <<>>
    /\ t_failing \in {{}} \cup {{hook} : hook \in DriverHooks}
    /\ t_last = <<>>
    /\ t_calls = 0
    /\ CompilerIdle /\ ParserIdle /\ NamerIdle /\ ProcessorIdle /\ PlannerIdle /\ ScopingIdle
    /\ PoolingIdle /\ ObservingIdle

SpecTrans == InitTrans /\ [][NextTrans]_vars
\* The last call was committransaction or rollbacktransaction.
EndsTransaction == t_last # <<>> /\ t_last.op \in {"committransaction", "rollbacktransaction"}

\* The level the last call was to end: the current one for None.
EndedLevel == IF t_last.level = None THEN t_last.before.transactionlevel ELSE t_last.level

\* The events of the last call that are calls of driver hooks, and those
\* that close a cursor, by their position in the log.
HookEvents == {k \in 1..Len(t_log) : t_log[k][2] \in DriverHooks}

CloseEvents == {k \in 1..Len(t_log) : t_log[k][2] = "close"}

\* The cursors registered at the levels from the given one upwards.
CursorsFrom(cursors, level) ==
    UNION {Range(cursors[n]) : n \in {m \in 1..Len(cursors) : m >= level}}

\* The driver hook that ends the level: COMMIT or ROLLBACK for level 1,
\* RELEASE sp_n or ROLLBACK TO sp_n above.
EndingHook(op, level) ==
    IF op = "committransaction"
    THEN (IF level = 1 THEN "docommittransaction" ELSE "docommitsavepoint")
    ELSE (IF level = 1 THEN "dorollbacktransaction" ELSE "dorollbacksavepoint")

\* C21: committransaction(L) and rollbacktransaction(L) with 1 <= L <= the
\* current level close and pop every cursor registered at a level >= L
\* before they issue the driver statement, which is COMMIT or ROLLBACK for
\* L = 1 and RELEASE sp_L or ROLLBACK TO sp_L above, and return with the
\* connection at level L - 1 and a cursor stack of L - 1 entries.
C21_CursorsClosedBeforeStatement ==
    EndsTransaction /\ 1 <= EndedLevel /\ EndedLevel <= t_last.before.transactionlevel =>
        LET conn == t_conns["c1"]
            before == t_last.before
        IN /\ \A i \in CloseEvents, j \in HookEvents : i < j
           /\ Cardinality(HookEvents) <= 1
           /\ \A j \in HookEvents :
                 /\ t_log[j][2] = EndingHook(t_last.op, EndedLevel)
                 /\ t_log[j][3] = EndedLevel
                 /\ {t_log[i][3] : i \in CloseEvents} = CursorsFrom(before.cursors, EndedLevel)
                 /\ Cardinality(CloseEvents) = Cardinality(CursorsFrom(before.cursors, EndedLevel))
                 /\ conn.cursors = SubSeq(before.cursors, 1, EndedLevel - 1)
           /\ t_last.raised = NoRaise =>
                 /\ \E j \in HookEvents : t_log[j][4]
                 /\ conn.transactionlevel = EndedLevel - 1
                 /\ Len(conn.cursors) = EndedLevel - 1

\* At level 3, with cursors open at the levels 2 and 3, level 2 was
\* committed or rolled back: both cursors were closed, the savepoint
\* statement was issued, and the connection is at level 1.
C21_Witness ==
    /\ EndsTransaction /\ t_last.level = 2 /\ t_last.raised = NoRaise
    /\ t_last.before.transactionlevel = 3
    /\ Len(t_last.before.cursors) = 3
    /\ t_last.before.cursors[2] # <<>> /\ t_last.before.cursors[3] # <<>>
    /\ Cardinality(CloseEvents) = 2
    /\ t_conns["c1"].transactionlevel = 1

\* C22: committransaction(L) and rollbacktransaction(L) with L < 1 or L
\* above the current level, at level 0 whatever L is, raise
\* DboTransactionError, issue no driver statement, close no cursor and leave
\* the transaction level and the cursor stack as they were.
C22_InvalidLevelRaises ==
    EndsTransaction /\ (EndedLevel < 1 \/ EndedLevel > t_last.before.transactionlevel) =>
        /\ t_last.raised = "DboTransactionError"
        /\ t_log = <<>>
        /\ t_conns["c1"] = t_last.before

\* At level 2 with an open cursor, level 3 was named.
C22_Witness ==
    /\ EndsTransaction /\ t_last.raised = "DboTransactionError"
    /\ t_last.before.transactionlevel = 2 /\ t_last.level = 3
    /\ Len(t_last.before.cursors) = 2
    /\ t_last.before.cursors[2] # <<>>
\* C29: when the driver hook of starttransaction raises, dostarttransaction
\* at level 0 or domakesavepoint above, the transaction level and the cursor
\* stack of the connection are what they were before the call, so that
\* len(cursors) = transactionlevel still holds and _closecurs passes its
\* assertion in a following committransaction or rollbacktransaction.
C29_FailedStartKeepsLevel ==
    /\ t_last # <<>> /\ t_last.op = "starttransaction" /\ t_last.raised = "Error" =>
          /\ t_conns["c1"] = t_last.before
          /\ Len(t_conns["c1"].cursors) = t_conns["c1"].transactionlevel
    /\ t_failing \subseteq {"dostarttransaction", "domakesavepoint"} /\ EndsTransaction =>
          t_last.raised # "AssertionError"

\* SAVEPOINT sp_2 has failed in a starttransaction at level 1, which left
\* the connection at level 2 with one list of cursors; the rollback of
\* level 1 that followed has raised AssertionError in _closecurs and the
\* connection is still at level 2.
C29_LevelAheadOfCursors ==
    /\ t_failing = {"domakesavepoint"}
    /\ EndsTransaction /\ t_last.op = "rollbacktransaction" /\ t_last.level = 1
    /\ t_last.raised = "AssertionError"
    /\ t_conns["c1"].transactionlevel = 2 /\ Len(t_conns["c1"].cursors) = 1
    /\ t_log = <<>>

\* dostarttransaction has failed at level 0 and the connection is as before.
C29_FailedBeginKeepsLevel ==
    /\ t_last # <<>> /\ t_last.op = "starttransaction" /\ t_last.raised = "Error"
    /\ t_last.before.transactionlevel = 0
    /\ t_conns["c1"] = t_last.before
(***************************************************************************)
(* BaseConnectionPool and ConnectionPoolContextManager                     *)
(* (venus.db.dbo.connectionpool).  A pool is its held and borrowed lists,  *)
(* the creation time of every connection its factory has made and the      *)
(* connections that were closed.                                           *)
(***************************************************************************)
MaxConns == 2

\* The connections the factory returns, in this order.
ConnId(n) == <<"c1", "c2", "c3", "c4", "c5", "c6", "c7", "c8">>[n]

NoConn == ""

\* BaseConnectionPool.__init__
NewPool(max_age, threadsafety) ==
    [held |-> <<>>, borrowed |-> <<>>, created |-> <<>>, closed |-> {}, made |-> 0,
     max_age |-> max_age, threadsafety |-> threadsafety]

\* The loop of borrow when an aged out connection is lent all the same.
PopHeldAged(pl, now) ==
    IF pl.held = <<>> THEN [pool |-> pl, res |-> NoConn]
    ELSE LET res == pl.held[Len(pl.held)]
             popped == [pl EXCEPT !.held = SubSeq(@, 1, Len(@) - 1)]
         IN IF now > pl.created[res] + pl.max_age
            THEN [pool |-> [popped EXCEPT !.closed = @ \cup {res}], res |-> res]
            ELSE [pool |-> popped, res |-> res]

\* The while loop of borrow: connections are popped from the end of held;
\* one that is aged out is closed and the next is tried.
RECURSIVE PopHeld(_, _)
PopHeld(pl, now) ==
    IF pl.held = <<>> THEN [pool |-> pl, res |-> NoConn]
    ELSE LET res == pl.held[Len(pl.held)]
             popped == [pl EXCEPT !.held = SubSeq(@, 1, Len(@) - 1)]
         IN IF now > pl.created[res] + pl.max_age
            THEN PopHeld([popped EXCEPT !.closed = @ \cup {res}], now)
            ELSE [pool |-> popped, res |-> res]

\* BaseConnectionPool.borrow
borrow(pl, now) ==
    LET tried == PopHeld(pl, now)
        new == ConnId(pl.made + 1)
        made == [tried.pool EXCEPT !.made = @ + 1, !.created = (new :> now) @@ @]
    IN IF tried.res # NoConn
       THEN [pool |-> [tried.pool EXCEPT !.borrowed = Append(@, tried.res)],
             res |-> tried.res, raised |-> NoRaise]
       ELSE IF pl.threadsafety < 1
       THEN [pool |-> made, res |-> NoConn, raised |-> "DboException"]
       ELSE [pool |-> [made EXCEPT !.borrowed = Append(@, new)], res |-> new, raised |-> NoRaise]

\* list.remove: the list without the first occurrence of the item.
Remove(list, item) ==
    LET at == CHOOSE i \in 1..Len(list) : list[i] = item /\ \A j \in 1..(i - 1) : list[j] # item
    IN SubSeq(list, 1, at - 1) \o SubSeq(list, at + 1, Len(list))

\* giveback when the connection is kept whatever its age and thread safety.
givebackKept(pl, conn, now) ==
    IF conn \in Range(pl.borrowed)
    THEN LET removed == [pl EXCEPT !.borrowed = Remove(@, conn)]
         IN [pool |-> IF pl.threadsafety < 2 \/ now > pl.created[conn] + pl.max_age
                      THEN [removed EXCEPT !.closed = @ \cup {conn}, !.held = Append(@, conn)]
                      ELSE [removed EXCEPT !.held = Append(@, conn)],
             raised |-> NoRaise]
    ELSE [pool |-> pl, raised |-> "ValueError"]

\* BaseConnectionPool.giveback
giveback(pl, conn, now) ==
    IF conn \in Range(pl.borrowed)
    THEN LET removed == [pl EXCEPT !.borrowed = Remove(@, conn)]
         IN [pool |-> IF pl.threadsafety < 2 \/ now > pl.created[conn] + pl.max_age
                      THEN [removed EXCEPT !.closed = @ \cup {conn}]
                      ELSE [removed EXCEPT !.held = Append(@, conn)],
             raised |-> NoRaise]
    ELSE [pool |-> pl, raised |-> "ValueError"]

\* The while loop of collect: held is popped from its end, the connections
\* that are not aged out are appended to examined.
RECURSIVE Examine(_, _, _)
Examine(pl, now, examined) ==
    IF pl.held = <<>> THEN [pl EXCEPT !.held = examined]
    ELSE LET conn == pl.held[Len(pl.held)]
             popped == [pl EXCEPT !.held = SubSeq(@, 1, Len(@) - 1)]
         IN IF now > pl.created[conn] + pl.max_age
            THEN Examine([popped EXCEPT !.closed = @ \cup {conn}], now, examined)
            ELSE Examine(popped, now, Append(examined, conn))

\* BaseConnectionPool.collect
collect(pl, now) == Examine(pl, now, <<>>)

(***************************************************************************)
(* Scoped acquisitions: one thread runs nested with-blocks of pool.open()  *)
(* and pool.opentrans(), with or without a connection given.  In a body it *)
(* writes rows, opens cursors, ends a transaction level itself, enters     *)
(* another scope or raises; an exception propagates through __exit__ until *)
(* it is caught.                                                           *)
(***************************************************************************)
MaxDepth == 2

MaxScopeSteps == 8

MaxRows == 2

NoExc == ""

\* BaseConnectionPool.open and opentrans: the context manager they return.
open(preconn) == [start_trans |-> ~preconn, preconn |-> preconn]

opentrans(preconn) == [start_trans |-> TRUE, preconn |-> preconn]

\* __exit__ when the transaction is committed whatever the body did.
contextexitCommit(mgr, typ, st, pl) ==
    LET ended == IF ~mgr.start_trans THEN st
                 ELSE committransaction(st, mgr.conn, mgr.trans_id)
        calls == IF ~mgr.start_trans THEN <<>>
                 ELSE << <<"committransaction", mgr.trans_id>> >>
        given == IF mgr.preconn THEN [pool |-> pl, raised |-> NoRaise]
                 ELSE giveback(pl, mgr.conn, 0)
    IN IF ended.raised # NoRaise
       THEN [st |-> ended, pool |-> pl, calls |-> calls, raised |-> ended.raised]
       ELSE [st |-> ended, pool |-> given.pool, calls |-> calls, raised |-> given.raised]

\* ConnectionPoolContextManager.__exit__ of the manager mgr, given the
\* exception typ ("" for none): the state of the connections, the pool, the
\* transaction calls made, and what was raised.
contextexit(mgr, typ, st, pl) ==
    LET ended == IF ~mgr.start_trans THEN st
                 ELSE IF typ # NoExc THEN rollbacktransaction(st, mgr.conn, mgr.trans_id)
                 ELSE committransaction(st, mgr.conn, mgr.trans_id)
        calls == IF ~mgr.start_trans THEN <<>>
                 ELSE IF typ # NoExc THEN << <<"rollbacktransaction", mgr.trans_id>> >>
                 ELSE << <<"committransaction", mgr.trans_id>> >>
        given == IF mgr.preconn THEN [pool |-> pl, raised |-> NoRaise]
                 ELSE giveback(pl, mgr.conn, 0)
    IN IF ended.raised # NoRaise
       THEN [st |-> ended, pool |-> pl, calls |-> calls, raised |-> ended.raised]
       ELSE [st |-> ended, pool |-> given.pool, calls |-> calls, raised |-> given.raised]

\* The innermost scope.
Top == s_scopes[Len(s_scopes)]

\* What a step leaves of the connections.
Stepped(st) ==
    /\ t_conns' = st.conns
    /\ t_driver' = st.driver
    /\ t_log' = st.log
    /\ s_steps' = s_steps + 1
    /\ UNCHANGED <<t_failing, t_last, t_calls>>

\* The expected fate of the rows when the scope at the given depth is left:
\* the rows written under it are rolled back with it, are kept when it
\* commits the transaction, and pass to the enclosing scope otherwise;
\* nothing is expected of them when __exit__ itself raised.
Fates(rows, depth, mgr, typ, raised) ==
    [r \in DOMAIN rows |->
        IF rows[r].fate # "open" \/ rows[r].depth # depth THEN rows[r]
        ELSE IF raised # NoRaise THEN [rows[r] EXCEPT !.fate = "unknown"]
        ELSE IF ~mgr.start_trans THEN [rows[r] EXCEPT !.depth = depth - 1]
        ELSE IF typ # NoExc THEN [rows[r] EXCEPT !.fate = "rolled back"]
        ELSE IF mgr.trans_id = 1 THEN [rows[r] EXCEPT !.fate = "kept"]
        ELSE [rows[r] EXCEPT !.depth = depth - 1]]

\* with pool.open(...) / pool.opentrans(...): ConnectionPoolContextManager.__enter__
EnterScope ==
    /\ s_steps < MaxScopeSteps /\ s_exc = NoExc /\ Len(s_scopes) < MaxDepth
    /\ \E preconn \in BOOLEAN, make \in {"open", "opentrans"} :
          /\ preconn => s_scopes # <<>>
          /\ ~preconn => s_pool.held # <<>> \/ s_pool.made < MaxConns
          /\ LET mgr == IF make = "open" THEN open(preconn) ELSE opentrans(preconn)
                 got == IF preconn THEN [pool |-> s_pool, res |-> Top.conn, raised |-> NoRaise]
                        ELSE borrow(s_pool, 0)
                 conn == got.res
                 new == conn \notin DOMAIN t_conns
                 st == CallState(IF new THEN (conn :> NewConnection) @@ t_conns ELSE t_conns,
                                 IF new THEN [t_driver EXCEPT !.frames = (conn :> NoFrames) @@ @]
                                 ELSE t_driver)
                 started == IF mgr.start_trans THEN starttransaction(st, conn) ELSE st
             IN /\ s_pool' = got.pool
                /\ Stepped(started)
                /\ IF started.raised # NoRaise
                   THEN s_exc' = started.raised /\ UNCHANGED s_scopes
                   ELSE /\ s_exc' = NoExc
                        /\ s_scopes' = Append(s_scopes,
                              [start_trans |-> mgr.start_trans, preconn |-> preconn, conn |-> conn,
                               trans_id |-> IF mgr.start_trans
                                            THEN started.conns[conn].transactionlevel ELSE 0])
    /\ UNCHANGED <<s_left, s_rows, s_direct>>

\* ConnectionPoolContextManager.__exit__ of the innermost scope, with the
\* exception that is propagating or with none.
ExitScope ==
    /\ s_steps < MaxScopeSteps /\ s_scopes # <<>>
    /\ LET left == contextexit(Top, s_exc, CallState(t_conns, t_driver), s_pool)
           out == IF left.raised # NoRaise THEN left.raised ELSE s_exc
       IN /\ Stepped(left.st)
          /\ s_pool' = left.pool
          /\ s_exc' = out
          /\ s_left' = [scope |-> Top, depth |-> Len(s_scopes), typ |-> s_exc, calls |-> left.calls,
                        log |-> left.st.log, raised |-> left.raised, out |-> out,
                        before |-> t_conns[Top.conn], after |-> left.st.conns[Top.conn],
                        borrowed |-> left.pool.borrowed]
          /\ s_rows' = Fates(s_rows, Len(s_scopes), Top, s_exc, left.raised)
    /\ s_scopes' = SubSeq(s_scopes, 1, Len(s_scopes) - 1)
    /\ UNCHANGED s_direct

\* The body writes a row: conn.execsql("insert ...").
BodyExecsql ==
    /\ s_steps < MaxScopeSteps /\ s_exc = NoExc /\ s_scopes # <<>>
    /\ Cardinality(DOMAIN s_rows) < MaxRows
    /\ LET row == Cardinality(DOMAIN s_rows) + 1
       IN /\ Stepped(execsql(CallState(t_conns, t_driver), Top.conn, row))
          /\ s_rows' = (row :> [depth |-> Len(s_scopes), fate |-> "open",
                                level |-> t_conns[Top.conn].transactionlevel]) @@ s_rows
    /\ UNCHANGED <<s_pool, s_scopes, s_exc, s_left, s_direct>>

\* The body opens a cursor: conn.getcursorfor("select ...").
BodyGetCursorFor ==
    /\ s_steps < MaxScopeSteps /\ s_exc = NoExc /\ s_scopes # <<>>
    /\ LET st == getcursorfor(CallState(t_conns, t_driver), Top.conn, s_steps + 1)
       IN /\ Stepped(st)
          /\ s_exc' = IF st.raised # NoRaise THEN st.raised ELSE NoExc
    /\ UNCHANGED <<s_pool, s_scopes, s_left, s_rows, s_direct>>

\* The body ends the current transaction level of its connection itself:
\* conn.committransaction(None) or conn.rollbacktransaction(None).
BodyEndTransaction ==
    /\ s_steps < MaxScopeSteps /\ s_exc = NoExc /\ s_scopes # <<>>
    /\ \E commit \in BOOLEAN :
          LET st == IF commit THEN committransaction(CallState(t_conns, t_driver), Top.conn, None)
                    ELSE rollbacktransaction(CallState(t_conns, t_driver), Top.conn, None)
          IN /\ Stepped(st)
             /\ s_exc' = IF st.raised # NoRaise THEN st.raised ELSE NoExc
    /\ s_direct' = TRUE
    /\ UNCHANGED <<s_pool, s_scopes, s_left, s_rows>>

\* The body raises.
BodyRaise ==
    /\ s_steps < MaxScopeSteps /\ s_exc = NoExc /\ s_scopes # <<>>
    /\ s_exc' = "Exception"
    /\ s_steps' = s_steps + 1
    /\ t_log' = <<>>
    /\ UNCHANGED <<t_conns, t_driver, t_failing, t_last, t_calls>>
    /\ UNCHANGED <<s_pool, s_scopes, s_left, s_rows, s_direct>>

\* The exception that is propagating is caught: try ... except around the
\* place where the thread is.
Catch ==
    /\ s_steps < MaxScopeSteps /\ s_exc # NoExc
    /\ s_exc' = NoExc
    /\ s_steps' = s_steps + 1
    /\ t_log' = <<>>
    /\ UNCHANGED <<t_conns, t_driver, t_failing, t_last, t_calls>>
    /\ UNCHANGED <<s_pool, s_scopes, s_left, s_rows, s_direct>>

NextScope ==
    /\ \/ EnterScope
       \/ ExitScope
       \/ BodyExecsql
       \/ BodyGetCursorFor
       \/ BodyEndTransaction
       \/ BodyRaise
       \/ Catch
    /\ UNCHANGED <<compiler, parser, namer, processor, planner, pooling, observing>>

\* Family "scopes": a pool just made, for a driver of thread safety 2, which
\* fails on none or on one of its hooks.
InitScope ==
    /\ t_conns = <<>>
    /\ t_driver = [committed |-> {}, frames |-> <<>>]
    /\ t_log = <<>>
    /\ t_failing \in {{}} \cup {{hook} : hook \in DriverHooks}
    /\ t_last = <<>>
    /\ t_calls = 0
    /\ s_pool = NewPool(1, 2)
    /\ s_scopes = <<>> /\ s_exc = NoExc /\ s_left = <<>> /\ s_steps = 0
    /\ s_rows = <<>> /\ s_direct = FALSE
    /\ CompilerIdle /\ ParserIdle /\ NamerIdle /\ ProcessorIdle /\ PlannerIdle
    /\ PoolingIdle /\ ObservingIdle

SpecScope == InitScope /\ [][NextScope]_vars

\* A scope has just been left through __exit__ of a manager that started a
\* transaction on entering.
LeftStarted == s_left # <<>> /\ s_left.scope.start_trans

\* Claim C23: leaving a scope that started a transaction on entering
\* (opentrans with or without a connection given, open without one) makes
\* exactly one call that ends the level started on entry: rollbacktransaction
\* of that level when the body raised and committransaction of it otherwise;
\* when that call returns, the exception of the body goes on propagating.
C23_ExitEndsStartedLevelOnce ==
    LeftStarted =>
       /\ s_left.calls = << <<IF s_left.typ # NoExc THEN "rollbacktransaction" ELSE "committransaction",
                             s_left.scope.trans_id>> >>
       /\ s_left.raised = NoRaise => s_left.out = s_left.typ

\* A scope that started the savepoint of level 2 was left by an exception,
\* which was rolled back to the savepoint and is propagating.
C23_Witness ==
    /\ LeftStarted
    /\ s_steps > 0 /\ s_scopes # <<>> /\ Len(s_scopes) = s_left.depth - 1
    /\ s_left.typ = "Exception" /\ s_left.scope.trans_id = 2
    /\ s_left.calls = << <<"rollbacktransaction", 2>> >>
    /\ t_log = << <<s_left.scope.conn, "dorollbacksavepoint", 2, TRUE>> >>
    /\ s_exc = "Exception"

\* A scope that started the transaction of a borrowed connection was left
\* normally and has committed.
C23_WitnessCommit ==
    /\ LeftStarted
    /\ s_left.typ = NoExc /\ ~s_left.scope.preconn /\ s_left.scope.trans_id = 1
    /\ s_left.calls = << <<"committransaction", 1>> >>
    /\ t_log = << <<s_left.scope.conn, "docommittransaction", 1, TRUE>> >>
    /\ s_exc = NoExc

\* The driver events of a list of events that are hook calls.
HooksIn(log) == SelectSeq(log, LAMBDA e : e[2] \in DriverHooks)

\* The rows that are in the database for good, and those a connection has
\* written and not yet committed.
Committed == t_driver.committed

Pending == UNION {UNION {t_driver.frames[c][i].rows : i \in 1..Len(t_driver.frames[c])} :
                  c \in DOMAIN t_driver.frames}

\* A scope of opentrans(conn) entered at level 1 has been left by an
\* exception, and its rollback has returned.
LeftNestedByException ==
    /\ s_left # <<>>
    /\ s_left.scope.start_trans /\ s_left.scope.preconn /\ s_left.scope.trans_id = 2
    /\ s_left.typ # NoExc /\ s_left.raised = NoRaise

\* A scope that started the transaction of its connection has been left
\* normally, and its commit has returned.
LeftOuterNormally ==
    /\ s_left # <<>>
    /\ s_left.scope.start_trans /\ s_left.scope.trans_id = 1
    /\ s_left.typ = NoExc /\ s_left.raised = NoRaise

\* Claim C24: when a scope of opentrans(conn) entered at level 1 is left by
\* an exception, ROLLBACK TO its savepoint is issued and the connection is
\* back at level 1 with one cursor list, that of the outer scope; the rows
\* written under a scope that was rolled back are not in the database and
\* the rows written under a scope that committed the transaction are, among
\* them those written in the outer scope after the nested one was rolled
\* back; the outer scope left normally issues COMMIT and leaves level 0.
C24_NestedRollbackKeepsOuter ==
    /\ LeftNestedByException =>
          /\ s_left.calls = << <<"rollbacktransaction", 2>> >>
          /\ HooksIn(s_left.log) = << <<s_left.scope.conn, "dorollbacksavepoint", 2, TRUE>> >>
          /\ s_left.after.transactionlevel = 1
          /\ Len(s_left.after.cursors) = 1
          /\ s_left.after.cursors = SubSeq(s_left.before.cursors, 1, 1)
    /\ \A r \in DOMAIN s_rows :
          /\ s_rows[r].fate = "rolled back" => r \notin Committed \cup Pending
          /\ s_rows[r].fate = "kept" => r \in Committed
    /\ LeftOuterNormally =>
          /\ s_left.calls = << <<"committransaction", 1>> >>
          /\ HooksIn(s_left.log) = << <<s_left.scope.conn, "docommittransaction", 1, TRUE>> >>
          /\ s_left.after.transactionlevel = 0
          /\ s_left.after.cursors = <<>>

\* The outer scope has committed after a nested opentrans(conn) was left by
\* an exception that was caught in the outer scope: the row of the nested
\* scope is gone and the row written afterwards in the outer scope is kept.
C24_Witness ==
    /\ LeftOuterNormally /\ ~s_direct /\ t_failing = {}
    /\ s_scopes = <<>> /\ s_exc = NoExc
    /\ DOMAIN s_rows = {1, 2}
    /\ s_rows[1].fate = "rolled back" /\ s_rows[1].level = 2
    /\ s_rows[2].fate = "kept" /\ s_rows[2].level = 1
    /\ s_pool.made = 1
    /\ Committed = {2} /\ Pending = {}
    /\ t_conns[s_left.scope.conn].transactionlevel = 0

\* The nested scope has just been left by an exception while a cursor was
\* open in it and another in the outer scope.
C24_WitnessNested ==
    /\ LeftNestedByException /\ ~s_direct
    /\ Len(s_left.before.cursors) = 2
    /\ s_left.before.cursors[1] # <<>> /\ s_left.before.cursors[2] # <<>>
    /\ s_exc = "Exception"

\* A scope that borrowed its connection has been left through __exit__.
LeftBorrowing == s_left # <<>> /\ ~s_left.scope.preconn

\* Claim C30: whenever a scope that borrowed its connection (open() or
\* opentrans() with no connection given) is left, normally or by an
\* exception, also when the commit or rollback of __exit__ raises, the
\* connection is no longer in pool.borrowed.
C30_LeftScopeGaveBack ==
    LeftBorrowing => s_left.scope.conn \notin Range(s_left.borrowed)

\* The body has ended the transaction of its borrowed connection itself and
\* the scope was then left normally: the commit of __exit__ raised
\* DboTransactionError and the connection is still in pool.borrowed, with
\* no scope open.
C30_StillBorrowed ==
    /\ LeftBorrowing /\ t_failing = {}
    /\ s_left.typ = NoExc /\ s_left.raised = "DboTransactionError"
    /\ s_scopes = <<>>
    /\ s_left.scope.conn \in Range(s_pool.borrowed)
    /\ s_left.scope.conn \notin Range(s_pool.held)

\* The scopes that returned from their commit or rollback have given their
\* connection back.
C30_GaveBackWhenEnded ==
    LeftBorrowing /\ s_left.raised = NoRaise => s_left.scope.conn \notin Range(s_left.borrowed)

(***************************************************************************)
(* ConnectionPool: the pool shared by borrower threads and the collector  *)
(* thread.  borrow, giveback and collect run under pool.lock; a thread    *)
(* first takes the lock and then runs the method of BaseConnectionPool    *)
(* and releases the lock.  Time passes between any two steps.             *)
(***************************************************************************)
MaxTime == 2

MaxMade == 3

Borrowers == {"t1", "t2"}

Collector == "collector"

Threads == Borrowers \cup {Collector}

Outside == [op |-> "", conn |-> NoConn]

\* The connections lent to a borrower and not yet given back by it.
Lent == UNION {cp_has[t] : t \in Borrowers}

\* with self.lock: the thread waits until the lock is free and takes it.
TakeLock(t, op, conn) ==
    /\ cp_pc[t] = Outside /\ cp_lock = ""
    /\ cp_lock' = t
    /\ cp_pc' = [cp_pc EXCEPT ![t] = [op |-> op, conn |-> conn]]
    /\ UNCHANGED <<cp_pool, cp_has, cp_now, cp_last>>

\* The method returns or raises: the lock is released.
ReleaseLock(t, pl, res, raised) ==
    /\ cp_lock' = ""
    /\ cp_pc' = [cp_pc EXCEPT ![t] = Outside]
    /\ cp_pool' = pl
    /\ cp_last' = [op |-> cp_pc[t].op, thread |-> t, conn |-> cp_pc[t].conn, res |-> res,
                   raised |-> raised, now |-> cp_now,
                   before |-> [held |-> cp_pool.held, closed |-> cp_pool.closed]]
    /\ UNCHANGED cp_now

\* ConnectionPool.borrow: a borrower calls pool.borrow().
CallBorrow ==
    \E t \in Borrowers :
       /\ cp_pool.made < MaxMade \/ cp_pool.held # <<>>
       /\ TakeLock(t, "borrow", NoConn)

\* BaseConnectionPool.borrow under the lock.
Borrow ==
    \E t \in Borrowers :
       /\ cp_pc[t].op = "borrow"
       /\ LET got == borrow(cp_pool, cp_now)
          IN /\ ReleaseLock(t, got.pool, got.res, got.raised)
             /\ cp_has' = IF got.raised = NoRaise THEN [cp_has EXCEPT ![t] = @ \cup {got.res}]
                          ELSE cp_has

\* ConnectionPool.giveback: a borrower gives back a connection it was lent.
CallGiveback ==
    \E t \in Borrowers : \E conn \in cp_has[t] : TakeLock(t, "giveback", conn)

\* BaseConnectionPool.giveback under the lock.
Giveback ==
    \E t \in Borrowers :
       /\ cp_pc[t].op = "giveback"
       /\ LET given == giveback(cp_pool, cp_pc[t].conn, cp_now)
          IN /\ ReleaseLock(t, given.pool, NoConn, given.raised)
             /\ cp_has' = [cp_has EXCEPT ![t] = @ \ {cp_pc[t].conn}]

\* ConnectionPoolCollector.run: the collector wakes up and calls pool.collect().
CallCollect == TakeLock(Collector, "collect", NoConn)

\* BaseConnectionPool.collect under the lock.
Collect ==
    /\ cp_pc[Collector].op = "collect"
    /\ ReleaseLock(Collector, collect(cp_pool, cp_now), NoConn, NoRaise)
    /\ UNCHANGED cp_has

\* A second passes.
Tick ==
    /\ cp_now < MaxTime
    /\ cp_now' = cp_now + 1
    /\ UNCHANGED <<cp_pool, cp_lock, cp_pc, cp_has, cp_last>>

NextPool ==
    /\ \/ CallBorrow
       \/ Borrow
       \/ CallGiveback
       \/ Giveback
       \/ CallCollect
       \/ Collect
       \/ Tick
    /\ UNCHANGED <<compiler, parser, namer, processor, planner, session, scoping, observing>>

\* Family "pools": a pool just made with max_age of one second, for a driver
\* of thread safety 0, 1 or 2, with its collector started.
InitPool ==
    /\ \E threadsafety \in 0..2 : cp_pool = NewPool(1, threadsafety)
    /\ cp_lock = ""
    /\ cp_pc = [t \in Threads |-> Outside]
    /\ cp_has = [t \in Borrowers |-> {}]
    /\ cp_now = 0
    /\ cp_last = <<>>
    /\ CompilerIdle /\ ParserIdle /\ NamerIdle /\ ProcessorIdle /\ PlannerIdle
    /\ SessionIdle /\ ScopingIdle /\ ObservingIdle

SpecPool == InitPool /\ [][NextPool]_vars

\* Claim C25: in every interleaving of borrow, giveback and collect by the
\* borrower threads and the collector, no connection is at once in held and
\* in borrowed, no connection is lent to two borrowers at once (nor lent
\* while it is held), and a connection the pool has closed, because it aged
\* out or because the driver's threadsafety is below 2, is never in held and
\* is never what a later borrow returns.
C25_PoolKeepsConnectionsApart ==
    /\ Range(cp_pool.held) \cap Range(cp_pool.borrowed) = {}
    /\ \A t, u \in Borrowers : t # u => cp_has[t] \cap cp_has[u] = {}
    /\ \A i, j \in 1..Len(cp_pool.borrowed) : i # j => cp_pool.borrowed[i] # cp_pool.borrowed[j]
    /\ \A i, j \in 1..Len(cp_pool.held) : i # j => cp_pool.held[i] # cp_pool.held[j]
    /\ Lent \cap Range(cp_pool.held) = {}
    /\ cp_pool.closed \cap Range(cp_pool.held) = {}
    /\ cp_pool.closed \cap Lent = {}
    /\ cp_last # <<>> /\ cp_last.op = "borrow" /\ cp_last.raised = NoRaise =>
          cp_last.res \notin cp_last.before.closed

\* Both borrowers have a connection, an aged out connection was closed and
\* the last borrow lent a connection that had been given back and held.
C25_Witness ==
    /\ cp_has["t1"] # {} /\ cp_has["t2"] # {}
    /\ cp_pool.closed # {}
    /\ cp_last # <<>> /\ cp_last.op = "borrow"
    /\ cp_last.res \in Range(cp_last.before.held)
    /\ \E c \in cp_last.before.closed : cp_pool.created[c] + cp_pool.max_age < cp_last.now

\* The collector has closed an aged out connection and kept a younger one.
C25_WitnessCollect ==
    /\ cp_last # <<>> /\ cp_last.op = "collect"
    /\ cp_pool.held # <<>>
    /\ cp_pool.closed \cap Range(cp_last.before.held) # {}

(***************************************************************************)
(* Observable (venus.misc.observable).  The dictionaries are functions on  *)
(* their keys; _wildcard_observers keeps the order in which its keys were  *)
(* inserted; the observers of an event are a set, iterated in any order.   *)
(* The handlers do not call back into the observable and the observers     *)
(* stay alive.                                                             *)
(***************************************************************************)
MaxObsCalls == 4

Observers == {"a", "b"}

Events == {"e1", "e2"}

\* The methods every observer has; a cbname that is none of them names no
\* method.
Methods == {"m1", "m2"}

Cbnames == Methods \cup {"nomethod"}

\* The *events argument: a tuple of events, here without repetition.
EventLists == {<<>>, <<"e1">>, <<"e2">>, <<"e1", "e2">>, <<"e2", "e1">>}

\* The orders in which a set may be iterated.
Orders(S) == {s \in [1..Cardinality(S) -> S] : Range(s) = S}

\* del d[k] and d[k] = v
DictDel(d, k) == [x \in DOMAIN d \ {k} |-> d[x]]

DictPut(d, k, v) == [x \in DOMAIN d \cup {k} |-> IF x = k THEN v ELSE d[x]]

\* An observable with no observer: Observable.__init__
NewObservable == [observers |-> <<>>, wildcard |-> <<>>, events |-> <<>>, called |-> <<>>,
                  raised |-> NoRaise]

\* The body of the loop of add_observer: the handler is recorded; the set of
\* the event is created, and the observer added to it, when the event has
\* no set yet.
AddEvent(ob, observer, cbname, event) ==
    [ob EXCEPT !.observers = DictPut(@, observer, DictPut(@[observer], event, cbname)),
               !.events = IF event \in DOMAIN @ THEN @ ELSE DictPut(@, event, {observer})]

RECURSIVE AddEvents(_, _, _, _)
AddEvents(ob, observer, cbname, events) ==
    IF events = <<>> THEN ob
    ELSE AddEvents(AddEvent(ob, observer, cbname, Head(events)), observer, cbname, Tail(events))

\* The position of an observer among the wildcard observers, 0 if none.
WildcardAt(wildcard, observer) ==
    IF \E i \in 1..Len(wildcard) : wildcard[i].observer = observer
    THEN CHOOSE i \in 1..Len(wildcard) : wildcard[i].observer = observer
    ELSE 0

\* Observable.add_observer
add_observer(ob, observer, cbname, events) ==
    IF events # <<>>
    THEN AddEvents(IF observer \in DOMAIN ob.observers THEN ob
                   ELSE [ob EXCEPT !.observers = DictPut(@, observer, <<>>)],
                   observer, cbname, events)
    ELSE LET at == WildcardAt(ob.wildcard, observer)
         IN IF at = 0
            THEN [ob EXCEPT !.wildcard = Append(@, [observer |-> observer, cbname |-> cbname])]
            ELSE [ob EXCEPT !.wildcard[at].cbname = cbname]

\* Observable.remove_wildcard_observer
remove_wildcard_observer(ob, observer) ==
    [ob EXCEPT !.wildcard = SelectSeq(@, LAMBDA w : w.observer # observer)]

\* The loop of remove_observer over the events given: set.remove raises
\* KeyError when the observer is not in the set of the event.
RECURSIVE RemoveEvents(_, _, _)
RemoveEvents(ob, observer, events) ==
    IF events = <<>> THEN ob
    ELSE LET event == Head(events)
             handlers == ob.observers[observer]
             deleted == [ob EXCEPT !.observers[observer] = DictDel(@, event)]
         IN IF event \notin DOMAIN handlers THEN RemoveEvents(ob, observer, Tail(events))
            ELSE IF event \notin DOMAIN ob.events THEN RemoveEvents(deleted, observer, Tail(events))
            ELSE IF observer \notin ob.events[event] THEN [deleted EXCEPT !.raised = "KeyError"]
            ELSE RemoveEvents([deleted EXCEPT !.events[event] = @ \ {observer}],
                              observer, Tail(events))

\* Observable.remove_observer
remove_observer(ob, observer, events) ==
    IF observer \notin DOMAIN ob.observers THEN ob
    ELSE IF events = <<>> THEN [ob EXCEPT !.observers = DictDel(@, observer)]
    ELSE LET removed == RemoveEvents(ob, observer, events)
         IN IF removed.raised = NoRaise /\ DOMAIN removed.observers[observer] = {}
            THEN [removed EXCEPT !.observers = DictDel(@, observer)]
            ELSE removed

\* The first loop of notify_observers over the observers of the event, in
\* the given order.
RECURSIVE NotifyEach(_, _, _)
NotifyEach(ob, event, order) ==
    IF order = <<>> THEN ob
    ELSE LET observer == Head(order)
         IN IF observer \notin DOMAIN ob.observers \/ event \notin DOMAIN ob.observers[observer]
            THEN [ob EXCEPT !.raised = "KeyError"]
            ELSE IF ob.observers[observer][event] \notin Methods
            THEN [ob EXCEPT !.raised = "NotImplementedError"]
            ELSE NotifyEach([ob EXCEPT !.called = Append(@, <<observer, ob.observers[observer][event],
                                                              event>>)],
                            event, Tail(order))

\* The second loop of notify_observers, over the wildcard observers.
RECURSIVE NotifyWildcard(_, _, _)
NotifyWildcard(ob, event, at) ==
    IF ob.raised # NoRaise \/ at > Len(ob.wildcard) THEN ob
    ELSE IF ob.wildcard[at].cbname \notin Methods
    THEN [ob EXCEPT !.raised = "NotImplementedError"]
    ELSE NotifyWildcard([ob EXCEPT !.called = Append(@, <<ob.wildcard[at].observer,
                                                         ob.wildcard[at].cbname, event>>)],
                        event, at + 1)

\* Observable.notify_observers, when the observers of the event are
\* iterated in the given order.
notify_observers(ob, event, order) ==
    NotifyWildcard(IF event \in DOMAIN ob.events THEN NotifyEach(ob, event, order) ELSE ob,
                   event, 1)

\* The observable of the state, before a call.
TheObservable ==
    [observers |-> o_observers, wildcard |-> o_wildcard_observers, events |-> o_events,
     called |-> <<>>, raised |-> NoRaise]

\* A call has been made on the observable.
ObsCalled(ob, op, observer, cbname, events) ==
    /\ o_observers' = ob.observers
    /\ o_wildcard_observers' = ob.wildcard
    /\ o_events' = ob.events
    /\ o_last' = [op |-> op, observer |-> observer, cbname |-> cbname, events |-> events,
                  called |-> ob.called, raised |-> ob.raised,
                  added |-> o_added, wildcard |-> o_wildcard_observers]
    /\ o_steps' = o_steps + 1

\* observable.add_observer(observer, cbname, *events)
AddObserver ==
    /\ o_steps < MaxObsCalls
    /\ \E observer \in Observers, cbname \in Cbnames, events \in EventLists :
          /\ ObsCalled(add_observer(TheObservable, observer, cbname, events),
                       "add_observer", observer, cbname, events)
          /\ o_added' = {r \in o_added : r[1] # observer \/ r[2] \notin Range(events)}
                        \cup {<<observer, e, cbname>> : e \in Range(events)}

\* observable.remove_observer(observer, *events)
RemoveObserver ==
    /\ o_steps < MaxObsCalls
    /\ \E observer \in Observers, events \in EventLists :
          /\ ObsCalled(remove_observer(TheObservable, observer, events),
                       "remove_observer", observer, "", events)
          /\ o_added' = {r \in o_added : r[1] # observer \/ (events # <<>> /\ r[2] \notin Range(events))}

\* observable.remove_wildcard_observer(observer)
RemoveWildcardObserver ==
    /\ o_steps < MaxObsCalls
    /\ \E observer \in Observers :
          ObsCalled(remove_wildcard_observer(TheObservable, observer),
                    "remove_wildcard_observer", observer, "", <<>>)
    /\ UNCHANGED o_added

\* observable.notify_observers(event)
NotifyObservers ==
    /\ o_steps < MaxObsCalls
    /\ \E event \in Events :
          \E order \in Orders(IF event \in DOMAIN o_events THEN o_events[event] ELSE {}) :
             ObsCalled(notify_observers(TheObservable, event, order),
                       "notify_observers", "", "", <<event>>)
    /\ UNCHANGED o_added

NextObs ==
    /\ \/ AddObserver
       \/ RemoveObserver
       \/ RemoveWildcardObserver
       \/ NotifyObservers
    /\ UNCHANGED <<compiler, parser, namer, processor, planner, session, scoping, pooling>>

\* Family "observers": an observable just made.
InitObs ==
    /\ o_observers = <<>> /\ o_wildcard_observers = <<>> /\ o_events = <<>>
    /\ o_added = {} /\ o_last = <<>> /\ o_steps = 0
    /\ CompilerIdle /\ ParserIdle /\ NamerIdle /\ ProcessorIdle /\ PlannerIdle
    /\ SessionIdle /\ ScopingIdle /\ PoolingIdle

SpecObs == InitObs /\ [][NextObs]_vars

\* The observers added for an event and not removed when the last call was
\* made, each with the handler it gave last.
RegisteredFor(event) == {<<r[1], r[3], event>> : r \in {x \in o_last.added : x[2] = event}}

\* notify_observers(E) has been called for an event E that some observer is
\* registered for, and every handler registered for E or as a wildcard is a
\* method of its observer.
NotifiedRegistered ==
    /\ o_last # <<>> /\ o_last.op = "notify_observers"
    /\ RegisteredFor(o_last.events[1]) # {}
    /\ \A r \in RegisteredFor(o_last.events[1]) : r[2] \in Methods
    /\ \A i \in 1..Len(o_last.wildcard) : o_last.wildcard[i].cbname \in Methods

\* Claim C28: notify_observers(E), for an event E that is registered,
\* invokes exactly once the handler last given for E by every observer that
\* was added for E and not removed, however many they are, and then the
\* handler of every wildcard observer.
C28_NotifyInvokesRegistered ==
    NotifiedRegistered =>
       LET event == o_last.events[1]
           n == Cardinality(RegisteredFor(event))
       IN /\ o_last.raised = NoRaise
          /\ Len(o_last.called) = n + Len(o_last.wildcard)
          /\ {o_last.called[i] : i \in 1..n} = RegisteredFor(event)
          /\ \A i \in 1..Len(o_last.wildcard) :
                o_last.called[n + i] = <<o_last.wildcard[i].observer, o_last.wildcard[i].cbname, event>>

\* Two observers were added for the same event, none was removed, and
\* notify_observers of the event has returned after invoking the handler of
\* the first one only.
C28_SecondObserverMissed ==
    /\ NotifiedRegistered /\ o_steps = 3
    /\ RegisteredFor("e1") = {<<"a", "m1", "e1">>, <<"b", "m2", "e1">>}
    /\ o_last.events = <<"e1">> /\ o_last.raised = NoRaise
    /\ o_last.called = << <<"a", "m1", "e1">> >>
    /\ o_events["e1"] = {"a"}

\* An observer that is alone on its event is notified with the handler it
\* gave last, when no observer was removed without events.
C28_LoneObserverNotified ==
    /\ NotifiedRegistered /\ o_steps = 3
    /\ RegisteredFor("e1") = {<<"a", "m2", "e1">>}
    /\ o_last.events = <<"e1">> /\ o_last.raised = NoRaise
    /\ o_last.called = << <<"a", "m2", "e1">> >>

\* B is reached from A by following direct_implementor one or more times
\* (at most as many times as there are definitions).
RECURSIVE ImplementorWithin(_, _, _)
ImplementorWithin(A, B, n) ==
    /\ n > 0
    /\ direct_implementor[A] \in Defs
    /\ \/ direct_implementor[A] = B
       \/ ImplementorWithin(direct_implementor[A], B, n - 1)

ImplementorOf(A, B) == ImplementorWithin(A, B, Cardinality(Defs))

\* Claim C26: after phase 2, whatever the order in which the definitions of
\* a final implementor are iterated, B is in A.implementations exactly when
\* B is reached from A by following direct_implementor one or more times,
\* and B is in A.implementations if and only if A is in B.specifications.
C26_ImplementationsInverseOfSpecifications ==
    (Completed("p2s5") /\ ~has_error) =>
        \A A, B \in Defs :
            final_implementor[A] = final_implementor[B] =>
               /\ B \in implementations[A] <=> ImplementorOf(A, B)
               /\ B \in implementations[A] <=> A \in specifications[B]

\* Phase 2 is over without error; A is implemented by B and B by C, and A
\* is among the specifications of C, but C is not among the implementations
\* of A: A was iterated before C.
C26_ImplementationMissed ==
    /\ Completed("p2s5") /\ ~has_error
    /\ \E A, B, C \in Defs :
          /\ direct_implementor[A] = B /\ direct_implementor[B] = C /\ final_implementor[A] = C
          /\ addr[A] < addr[C]
          /\ A \in specifications[C] /\ A \in specifications[B] /\ B \in specifications[C]
          /\ implementations[A] = {B}

\* The specifications are the definitions from which the item is reached by
\* following direct_implementor, in every order of iteration.
C26_SpecificationsTransitive ==
    (Completed("p2s5") /\ ~has_error) =>
        \A A, B \in Defs : A \in specifications[B] <=> ImplementorOf(A, B)

\* The implementations hold nothing but implementors, and always the direct
\* one.
C26_ImplementationsSound ==
    (Completed("p2s5") /\ ~has_error) =>
        \A A, B \in Defs :
            /\ B \in implementations[A] => ImplementorOf(A, B)
            /\ direct_implementor[A] \in Defs => direct_implementor[A] \in implementations[A]

(***************************************************************************)
(* Upgrade of a created database.  create() of the old instance runs on an *)
(* empty database whose schemas, tables and columns are followed; then     *)
(* upgrade(old_instance, new_instance) runs on the database it made.       *)
(***************************************************************************)
\* The compiled instances, and T1 of the second one under another name.
MigrateInstances ==
    Instances \cup {[schemas |-> ("S1" :> "p"), tables |-> ("T1" :> TableV1("S1", "u1"))]}

\* The old instance was created without a failing statement; upgrade is
\* called with a new instance and its options.
UpgradeCreated ==
    /\ d_op = "create" /\ d_exists = Tracked
    /\ d_pc > Len(CreateSteps) /\ d_run.raised = NoRaise /\ ~d_run.failed
    /\ d_op' = "upgrade"
    /\ d_old' = d_new
    /\ d_new' \in MigrateInstances
    /\ d_options' \in OptionChoices
    /\ d_pc' = 0
    /\ d_context' = <<>>
    /\ d_run' = Began
    /\ UNCHANGED <<d_exists, d_failing, d_reversed>>

NextMigrate ==
    /\ \/ CreateBegin
       \/ CreateStep
       \/ UpgradeCreated
       \/ UpgradeBegin
       \/ UpgradeStep
    /\ UNCHANGED <<compiler, parser, namer, processor, services>>

\* Family "migrations": create(old) on an empty database, then
\* upgrade(old, new).
InitMigrate ==
    /\ d_op = "create"
    /\ d_old = NoInstance
    /\ d_new \in MigrateInstances
    /\ d_options \in {[none |-> TRUE, dict |-> <<>>]}
    /\ d_exists = Tracked
    /\ d_failing = {}
    /\ d_reversed \in BOOLEAN
    /\ d_pc = 0
    /\ d_context = <<>>
    /\ d_run = NewRun
    /\ CompilerIdle /\ ParserIdle /\ NamerIdle /\ ProcessorIdle /\ ServicesIdle

SpecMigrate == InitMigrate /\ [][NextMigrate]_vars

RECURSIVE CreateFrom(_, _, _)
\* The run of create() of the instance from its step k on.
CreateFrom(run, instance, k) ==
    IF k > Len(CreateSteps) THEN run
    ELSE CreateFrom(CreateStepOf(CreateSteps[k], [run EXCEPT !.step = CreateSteps[k]], instance),
                    instance, k + 1)

\* The database new_instance.create() makes of an empty database.
CreatedNew == CreateFrom(NewRun, d_new, 1).db

\* No table of both instances is in a schema of another GUID or path.
NoTableChangesSchema ==
    /\ MovedTables(d_old, d_new) = {}
    /\ \A t \in DOMAIN d_old.tables \cap DOMAIN d_new.tables :
          d_old.tables[t].owner = d_new.tables[t].owner

\* upgrade(old_instance, new_instance) has run to its end on the database
\* old_instance.create() made, and no statement failed.
Upgraded ==
    /\ d_op = "upgrade" /\ d_exists = Tracked
    /\ d_pc > Len(UpgradeSteps) /\ d_run.raised = NoRaise /\ ~d_run.failed

\* C27: after upgrade(old_instance, new_instance) on the database of
\* old_instance.create(), with no failing statement and no table in another
\* schema, the schemas, tables, columns, column types and NOT NULL flags are
\* those new_instance.create() makes of an empty database.
C27_UpgradeYieldsCreatedStructure ==
    Upgraded /\ NoTableChangesSchema => d_run.db = CreatedNew

\* T1 keeps its GUID and has another name in the new instance: the upgrade
\* makes no statement and the table keeps its old name.
C27_RenamedTableKept ==
    /\ Upgraded /\ NoTableChangesSchema
    /\ d_run.log = <<>>
    /\ <<"p", "t1">> \in d_run.db.tables
    /\ <<"p", "u1">> \notin d_run.db.tables
    /\ <<"p", "u1">> \in CreatedNew.tables

\* Where every table of both instances keeps its physical name, the claim
\* of C27 holds.
C27_SameNamesYieldCreatedStructure ==
    /\ Upgraded /\ NoTableChangesSchema
    /\ \A t \in DOMAIN d_old.tables \cap DOMAIN d_new.tables :
          d_old.tables[t].name = d_new.tables[t].name
    => d_run.db = CreatedNew

\* A field was dropped, a type changed and a NOT NULL flag dropped, and the
\* database is the one create() of the new instance makes.
C27_AlteredAsCreated ==
    /\ Upgraded /\ NoTableChangesSchema
    /\ \E k \in 1..Len(d_run.log) : d_run.log[k][2][1] = "DROP COLUMN"
    /\ \E k \in 1..Len(d_run.log) : d_run.log[k][2][1] = "SET DATA TYPE"
    /\ d_run.db = CreatedNew

====
